---- MODULE Spec2Model ----
(***************************************************************************)
(* Model of the status command of usage-google-opencode: runStatus and    *)
(* the per-(account, identity) pipeline fetchIdentityQuota, which chains  *)
(* refreshAccessToken -> ensureProjectId -> fetchQuota over the network.  *)
(*                                                                         *)
(* Strings are sequences of chunks (a chunk is a piece of text that the   *)
(* code never looks inside; " " is a whitespace chunk), so that trim(),   *)
(* includes() and the emptiness tests are computed, not assumed.  The     *)
(* JavaScript value undefined is the one-chunk string Undef.              *)
(*                                                                         *)
(* One action is one run-to-completion segment of the event loop: from    *)
(* the arrival of a response (or a timer) to the next network call or     *)
(* timer.  An await on an already settled promise is folded into the      *)
(* segment it continues: no other task's state is read or written there.  *)
(***************************************************************************)
EXTENDS Integers, Sequences, FiniteSets, TLC

VARIABLES
    disk,      \* the persisted store file (list of accounts)
    opts,      \* StatusOptions: accountFilter, identityFilter
    now,       \* the clock, in epoch seconds (Date.now() / 1000)
    runPc,     \* position of runStatus: "idle", "loading", "awaiting", "returned", "threw"
    store,     \* the store runStatus loaded
    tasks,     \* the promises pushed by runStatus, in push order
    reports,   \* StatusResult.reports
    errors,    \* StatusResult.errors
    save,      \* the fire-and-forget saveStore call: [state, arg]
    deviations, \* number of non-nominal network responses so far
    files,     \* which store files exist: the current one (its accounts are disk)
               \* and the legacy one, with its accounts
    probe,     \* a function of the program applied on its own: [op, input, output]
    fs         \* the config directory as saveStore and loadStore see it, with
               \* the saveStore and loadStore calls in progress

vars == <<disk, opts, now, runPc, store, tasks, reports, errors, save, deviations,
          files, probe, fs>>

-----------------------------------------------------------------------------
(* Bounds of the model *)

\* most network responses per run that deviate from the nominal one (2xx, a
\* well-formed body of the expected shape with a token lifetime)
MaxDeviations == 3

\* most tasks of a run of Spec (SpecWide has no such limit)
MaxWidth == 2

\* most non-nominal responses of a run of more than MaxWidth tasks
MaxWideDeviations == 2

-----------------------------------------------------------------------------
(* Program constants *)

TOKEN_CACHE_MARGIN_S == 300
MAX_RETRIES == 3
DefaultExpiresIn == 3600
HttpForbidden == 403

GOOGLE_OAUTH_TOKEN_ENDPOINT == "https://oauth2.googleapis.com/token"
RETRIEVE_USER_QUOTA_ENDPOINT == "https://cloudcode-pa.googleapis.com/v1internal:retrieveUserQuota"
FETCH_AVAILABLE_MODELS_ENDPOINTS ==
    << "https://cloudcode-pa.googleapis.com/v1internal:fetchAvailableModels" >>
LOAD_CODE_ASSIST_ENDPOINTS ==
    << "https://cloudcode-pa.googleapis.com/v1internal:loadCodeAssist",
       "https://daily-cloudcode-pa.sandbox.googleapis.com/v1internal:loadCodeAssist",
       "https://autopush-cloudcode-pa.sandbox.googleapis.com/v1internal:loadCodeAssist" >>
DEFAULT_PROJECT_ID == << "rising-fact-p41fc" >>

QuotaIdentity == {"antigravity", "gemini-cli"}

-----------------------------------------------------------------------------
(* Strings *)

Undef == << "<undefined>" >>
EmptyStr == << >>

\* JavaScript truthiness of an optional string: !s is true for undefined and ""
Falsy(s) == s = Undef \/ s = EmptyStr

RECURSIVE TrimStart(_)
TrimStart(s) ==
    IF s # << >> /\ Head(s) = " " THEN TrimStart(Tail(s)) ELSE s

RECURSIVE TrimEnd(_)
TrimEnd(s) ==
    IF s # << >> /\ s[Len(s)] = " " THEN TrimEnd(SubSeq(s, 1, Len(s) - 1)) ELSE s

\* String.prototype.trim
Trim(s) == TrimEnd(TrimStart(s))

\* String.prototype.toLowerCase on the chunks that occur in messages
Lower(c) ==
    CASE c = "Forbidden" -> "forbidden"
      [] c = "Claude" -> "claude"
      [] c = "GEMINI" -> "gemini"
      [] c = "IMAGE" -> "image"
      [] OTHER -> c

\* s?.includes(c): undefined gives a falsy result
Includes(s, c) == s # Undef /\ \E k \in DOMAIN s : s[k] = c
IncludesLower(s, c) == s # Undef /\ \E k \in DOMAIN s : Lower(s[k]) = c

-----------------------------------------------------------------------------
(* The store: UsageOpencodeAccount and UsageOpencodeIdentity *)

\* account.antigravity / account.geminiCli when the key is absent
NoIdentity ==
    [present |-> FALSE, refreshToken |-> Undef, projectId |-> Undef,
     cachedAccessToken |-> Undef, cachedExpiresAt |-> 0]

Identity(rt, pid, cat, cea) ==
    [present |-> TRUE, refreshToken |-> rt, projectId |-> pid,
     cachedAccessToken |-> cat, cachedExpiresAt |-> cea]

\* account[identityKey], identityKey = identity === "antigravity" ? "antigravity" : "geminiCli"
IdentityOf(account, identity) ==
    IF identity = "antigravity" THEN account.antigravity ELSE account.geminiCli

-----------------------------------------------------------------------------
(* Errors: the fields the classification reads.  status -1 is "no status   *)
(* property" (a plain Error).                                              *)

MkError(name, message, status, error, errorDescription) ==
    [name |-> name, message |-> message, status |-> status,
     error |-> error, errorDescription |-> errorDescription]

OAuthTokenError(message, status, error, errorDescription) ==
    MkError("OAuthTokenError", message, status, error, errorDescription)

QuotaError(message, status) == MkError("QuotaError", message, status, Undef, Undef)

ProjectError(message, status) == MkError("ProjectError", message, status, Undef, Undef)

PlainError(message) == MkError("Error", message, -1, Undef, Undef)

\* variant: only the message is searched
isInvalidGrantErrorMessageOnly(error) == Includes(error.message, "invalid_grant")

isInvalidGrantError(error) ==
    \/ error.error = << "invalid_grant" >>
    \/ Includes(error.errorDescription, "invalid_grant")
    \/ Includes(error.message, "invalid_grant")

\* variant: every HTTP client or server error counts as forbidden
isForbiddenErrorAnyHttp(error) ==
    \/ error.status >= 400
    \/ Includes(error.message, "403")
    \/ IncludesLower(error.message, "forbidden")

isForbiddenError(error) ==
    \/ error.status = HttpForbidden
    \/ Includes(error.message, "403")
    \/ IncludesLower(error.message, "forbidden")

\* variant: the expiry in seconds is compared with a clock in milliseconds
isCachedTokenValidMillis(identityData, clock) ==
    /\ ~Falsy(identityData.cachedAccessToken)
    /\ identityData.cachedExpiresAt # 0
    /\ identityData.cachedExpiresAt > clock * 1000 + TOKEN_CACHE_MARGIN_S

\* variant: a token that expires exactly at the margin still counts as valid
isCachedTokenValidInclusive(identityData, clock) ==
    /\ ~Falsy(identityData.cachedAccessToken)
    /\ identityData.cachedExpiresAt # 0
    /\ identityData.cachedExpiresAt >= clock + TOKEN_CACHE_MARGIN_S

\* cachedExpiresAt 0 stands for an absent (or zero) expiry: both are falsy
isCachedTokenValid(identityData, clock) ==
    /\ ~Falsy(identityData.cachedAccessToken)
    /\ identityData.cachedExpiresAt # 0
    /\ identityData.cachedExpiresAt > clock + TOKEN_CACHE_MARGIN_S

-----------------------------------------------------------------------------
(* A task: one call of fetchIdentityQuota(account, identity, identityData). *)
(* pc is the await the task is suspended at:                                *)
(*   "token"   the fetch of postToken                                       *)
(*   "project" the fetch of ensureProjectId, endpoint number ep             *)
(*   "quota"   the fetch of fetchQuotaWithRetry, attempt number attempt     *)
(*   "delay"   delay(RETRY_DELAY_MS) before the next attempt                *)
(*   "done"    the promise is fulfilled with result                         *)
(*   "rejected" the promise is rejected                                     *)
(* calls is the list of outbound requests the task has issued, each with    *)
(* the answer it got once it has one.                                       *)

NoTokenCache == [set |-> FALSE, accessToken |-> Undef, expiresAt |-> 0]

NoResult ==
    [kind |-> "none", email |-> Undef, identity |-> "", projectId |-> Undef,
     models |-> << >>, error |-> Undef, needsRelogin |-> FALSE,
     isForbidden |-> FALSE, tokenCache |-> NoTokenCache]

NoError == PlainError(Undef)

\* the answer of a call: net is "pending", "silent" (the remote side will never
\* respond), "none" (an HTTP response), "error" or "timeout"; body is what the
\* claims read of the response body
Answer(net, status, body) == [net |-> net, status |-> status, body |-> body]

Pending == Answer("pending", 0, << >>)
Silent == Answer("silent", 0, << >>)

Call(kind, url, auth, body) ==
    [kind |-> kind, url |-> url, auth |-> auth, body |-> body, answer |-> Pending]

\* the call the task is waiting for
LastCall(t) == t.calls[Len(t.calls)]

\* record the answer of the call the task is waiting for
Answered(t, answer) == [t EXCEPT !.calls[Len(t.calls)].answer = answer]

NewTask(account, identity) ==
    [account |-> account, identity |-> identity, pc |-> "start",
     accessToken |-> Undef, tokenCache |-> NoTokenCache, ep |-> 0,
     projectId |-> Undef, attempt |-> 0, lastError |-> NoError,
     calls |-> << >>, result |-> NoResult]

\* the locals of a settled task are gone
Settle(t, pc, result) ==
    [t EXCEPT !.pc = pc, !.result = result, !.accessToken = Undef,
              !.tokenCache = NoTokenCache, !.ep = 0, !.projectId = Undef,
              !.attempt = 0, !.lastError = NoError]

\* fetchIdentityQuota, the return of the try block
Succeed(t, models) ==
    Settle(t, "done",
           [NoResult EXCEPT !.kind = "report", !.email = t.account.email,
                            !.identity = t.identity, !.projectId = t.projectId,
                            !.models = models, !.tokenCache = t.tokenCache])

\* variant: fetchIdentityQuota without its try/catch, the rejection reaches Promise.all
CatchRethrow(t, error) == Settle(t, "rejected", NoResult)

\* fetchIdentityQuota, the catch block
Catch(t, error) ==
    Settle(t, "done",
           [NoResult EXCEPT !.kind = "error", !.email = t.account.email,
                            !.identity = t.identity, !.error = error.message,
                            !.needsRelogin = isInvalidGrantError(error),
                            !.isForbidden = isForbiddenError(error)])

-----------------------------------------------------------------------------
(* Quota responses and their parsing (google/quota.ts).  A fraction is the *)
(* rational num / FracDen.                                                  *)

FracDen == 1000

NoFraction == [def |-> FALSE, num |-> 0]
Fraction(n) == [def |-> TRUE, num |-> n]

\* variant: the filter without the image models, /gemini|claude/i
MODEL_FILTER_PATTERNTextOnly(name) ==
    name # Undef /\ \E k \in DOMAIN name : Lower(name[k]) \in {"gemini", "claude"}

\* MODEL_FILTER_PATTERN = /gemini|claude|image|imagen/i on a name made of chunks
MODEL_FILTER_PATTERN(name) ==
    name # Undef /\ \E k \in DOMAIN name :
        Lower(name[k]) \in {"gemini", "claude", "image", "imagen"}

\* JavaScript numbers are IEEE-754 doubles: a significand of MantissaBits bits,
\* here a sequence of bits with the most significant bit first
MantissaBits == 53

\* the arithmetic on bit sequences goes Limb bits at a time
Limb == 16

\* the number written by a sequence of at most Limb bits
RECURSIVE BitsValue(_)
BitsValue(bits) ==
    IF bits = << >> THEN 0
    ELSE 2 * BitsValue(SubSeq(bits, 1, Len(bits) - 1)) + bits[Len(bits)]

\* v written with exactly n bits, and with no leading zero
FixedBits(v, n) == [i \in 1..n |-> (v \div (2 ^ (n - i))) % 2]

RECURSIVE ToBits(_)
ToBits(v) == IF v = 0 THEN << >> ELSE ToBits(v \div 2) \o << v % 2 >>

\* bits + 1
Increment(bits) ==
    IF \A i \in DOMAIN bits : bits[i] = 1
    THEN << 1 >> \o [i \in DOMAIN bits |-> 0]
    ELSE LET last == CHOOSE i \in DOMAIN bits :
                         bits[i] = 0 /\ \A j \in (i + 1)..Len(bits) : bits[j] = 1
         IN  [i \in DOMAIN bits |-> IF i < last THEN bits[i]
                                     ELSE IF i = last THEN 1 ELSE 0]

\* round to nearest, ties to even
RoundNearestEven(keep, above, tie) ==
    IF above \/ (tie /\ keep[Len(keep)] = 1) THEN Increment(keep) ELSE keep

\* the number of zero bits of r / d before its first one bit (0 < r < d)
RECURSIVE LeadingZeros(_, _)
LeadingZeros(r, d) == IF 2 * r >= d THEN 0 ELSE 1 + LeadingZeros(2 * r, d)

\* the next count bits of r / d and the remainder, by long division
RECURSIVE Quotient(_, _, _, _)
Quotient(r, d, count, acc) ==
    IF count = 0 THEN [bits |-> acc, rem |-> r]
    ELSE LET n == IF count < Limb THEN count ELSE Limb
         IN  Quotient((r * (2 ^ n)) % d, d, count - n,
                      acc \o FixedBits((r * (2 ^ n)) \div d, n))

\* JSON.parse of the decimal num / den (0 < num < den): the nearest double,
\* as [bits, scale] with the value bits * 2^(-scale)
ToDouble(num, den) ==
    LET z == LeadingZeros(num, den)
        q == Quotient(num * (2 ^ z), den, MantissaBits, << >>)
    IN  [bits |-> RoundNearestEven(q.bits, 2 * q.rem > den, 2 * q.rem = den),
         scale |-> z + MantissaBits]

\* the exact product bits * k
RECURSIVE Times(_, _, _)
Times(bits, k, carry) ==
    IF bits = << >> THEN ToBits(carry)
    ELSE LET n == IF Len(bits) < Limb THEN Len(bits) ELSE Limb
             low == SubSeq(bits, Len(bits) - n + 1, Len(bits))
             t == BitsValue(low) * k + carry
         IN  Times(SubSeq(bits, 1, Len(bits) - n), k, t \div (2 ^ n))
                 \o FixedBits(t % (2 ^ n), n)

\* a product rounded to the significand of a double
RoundToDouble(p) ==
    IF Len(p) <= MantissaBits THEN p
    ELSE LET keep == SubSeq(p, 1, MantissaBits)
             drop == SubSeq(p, MantissaBits + 1, Len(p))
             half == drop[1] = 1 /\ \A i \in 2..Len(drop) : drop[i] = 0
         IN  RoundNearestEven(keep, drop[1] = 1 /\ ~half, half)

\* Math.floor(remainingFraction * 100) for the fraction num / FracDen of the body
MathFloorTimes100(num) ==
    IF num = 0 THEN 0
    ELSE IF num = FracDen THEN 100
    ELSE LET f == ToDouble(num, FracDen)
             p == Times(f.bits, 100, 0)
             dropped == IF Len(p) > MantissaBits THEN Len(p) - MantissaBits ELSE 0
             r == RoundToDouble(p)
             whole == Len(r) - (f.scale - dropped)
         IN  IF whole <= 0 THEN 0 ELSE BitsValue(SubSeq(r, 1, whole))

\* the percentages of the fractions lo / FracDen .. hi / FracDen
RECURSIVE PercentsBetween(_, _)
PercentsBetween(lo, hi) ==
    IF lo = hi THEN << MathFloorTimes100(lo) >>
    ELSE PercentsBetween(lo, (lo + hi) \div 2) \o PercentsBetween((lo + hi) \div 2 + 1, hi)

Percents == PercentsBetween(0, FracDen)

\* Math.floor(remainingFraction * 100); a fraction that is a whole number k, in
\* or out of [0,1], is the double k and its product with 100 is exact
FloorPercent(num) ==
    IF num % FracDen = 0 THEN 100 * (num \div FracDen) ELSE Percents[num + 1]

\* one entry of response.models: [name, quotaInfo?: {remainingFraction?, resetTime?}]
ModelEntry(name, hasQuotaInfo, fraction, resetTime) ==
    [name |-> name, hasQuotaInfo |-> hasQuotaInfo,
     remainingFraction |-> fraction, resetTime |-> resetTime]

ModelQuota(model, remainingPercent, resetTime) ==
    [model |-> model, remainingPercent |-> remainingPercent, resetTime |-> resetTime]

\* variant: a model without quotaInfo is skipped
parseQuotaResponseDropPartial(models) ==
    LET complete == SelectSeq(models, LAMBDA m : m.hasQuotaInfo /\ MODEL_FILTER_PATTERN(m.name))
    IN  [k \in DOMAIN complete |->
            ModelQuota(complete[k].name,
                       FloorPercent(IF complete[k].remainingFraction.def
                                    THEN complete[k].remainingFraction.num ELSE 0),
                       IF complete[k].resetTime # Undef
                       THEN complete[k].resetTime ELSE EmptyStr)]

RECURSIVE parseQuotaResponse(_)
parseQuotaResponse(models) ==
    IF models = << >> THEN << >>
    ELSE LET m == Head(models)
             remainingFraction ==
                 IF m.hasQuotaInfo /\ m.remainingFraction.def
                 THEN m.remainingFraction.num ELSE 0
             resetTime ==
                 IF m.hasQuotaInfo /\ m.resetTime # Undef THEN m.resetTime ELSE EmptyStr
         IN  IF ~MODEL_FILTER_PATTERN(m.name)
             THEN parseQuotaResponse(Tail(models))
             ELSE << ModelQuota(m.name, FloorPercent(remainingFraction), resetTime) >>
                  \o parseQuotaResponse(Tail(models))

\* one bucket: the name field is modelId (possibly undefined), hasQuotaInfo is unused
RECURSIVE parseUserQuotaResponse(_)
parseUserQuotaResponse(buckets) ==
    IF buckets = << >> THEN << >>
    ELSE LET b == Head(buckets)
             remainingFraction ==
                 IF b.remainingFraction.def THEN b.remainingFraction.num ELSE 0
             resetTime == IF b.resetTime # Undef THEN b.resetTime ELSE EmptyStr
         IN  IF Falsy(b.name) \/ ~MODEL_FILTER_PATTERN(b.name)
             THEN parseUserQuotaResponse(Tail(buckets))
             ELSE << ModelQuota(b.name, FloorPercent(remainingFraction), resetTime) >>
                  \o parseUserQuotaResponse(Tail(buckets))

\* a response body: text is "empty", "garbage" (not JSON) or "json"
Body(text, hasModels, models, hasBuckets, buckets) ==
    [text |-> text, hasModels |-> hasModels, models |-> models,
     hasBuckets |-> hasBuckets, buckets |-> buckets]

\* readJsonSafe: undefined for an empty or unparsable body
readJsonSafe(body) == body.text = "json"

\* variant: the isGeminiCli flag is not passed on, every body is read as a models map
ParseQuotaBodyModelsOnly(body, isGeminiCli) ==
    IF ~readJsonSafe(body) THEN << >>
    ELSE IF ~body.hasModels THEN << >> ELSE parseQuotaResponse(body.models)

\* the part of fetchQuotaWithRetry after a 2xx response
ParseQuotaBody(body, isGeminiCli) ==
    IF ~readJsonSafe(body) THEN << >>
    ELSE IF isGeminiCli
         THEN IF ~body.hasBuckets THEN << >> ELSE parseUserQuotaResponse(body.buckets)
         ELSE IF ~body.hasModels THEN << >> ELSE parseQuotaResponse(body.models)

\* an HTTP exchange: net is "none" (a response arrived), "error" (fetch rejected)
\* or "timeout" (the AbortController fired)
Response(net, status, body) == [net |-> net, status |-> status, body |-> body]

ResOk(r) == r.status >= 200 /\ r.status <= 299

SampleReset == << "2026-01-18T00:00:00Z" >>

SampleEntries ==
    << ModelEntry(<< "gemini", "-x" >>, TRUE, Fraction(755), SampleReset),
       ModelEntry(<< "Claude", "-y" >>, FALSE, NoFraction, Undef),
       ModelEntry(<< "unrelated", "-w" >>, TRUE, Fraction(500), SampleReset) >>

EmptyBody == Body("empty", FALSE, << >>, FALSE, << >>)
ModelsBody == Body("json", TRUE, SampleEntries, FALSE, << >>)
BucketsBody == Body("json", FALSE, << >>, TRUE, SampleEntries)

\* a 2xx body that is not JSON (an HTML page of a proxy)
GarbageBody == Body("garbage", FALSE, << >>, FALSE, << >>)

QuotaBodies == {EmptyBody, GarbageBody, ModelsBody, BucketsBody}

NetMessage(net) ==
    IF net = "timeout"
    THEN << "Network request timed out after ", "15000", "ms" >>
    ELSE << "fetch failed" >>

-----------------------------------------------------------------------------
(* fetchQuota and fetchQuotaWithRetry (google/quota.ts) *)

QuotaEndpoint(identity) ==
    IF identity = "gemini-cli" THEN RETRIEVE_USER_QUOTA_ENDPOINT
    ELSE FETCH_AVAILABLE_MODELS_ENDPOINTS[1]

\* fetchWithTimeout(fetchImpl, endpoint, {POST, Authorization: Bearer accessToken, {project}})
IssueQuotaCall(t, attempt) ==
    [t EXCEPT !.pc = "quota", !.attempt = attempt,
              !.calls = Append(@, Call("quota", QuotaEndpoint(t.identity),
                                       t.accessToken, t.projectId))]

\* fetchQuota: input validation, then the first attempt of fetchQuotaWithRetry
fetchQuota(t) ==
    IF Falsy(t.accessToken) \/ Trim(t.accessToken) = EmptyStr
    THEN Catch(t, QuotaError(<< "Access token is required and cannot be empty" >>, 0))
    ELSE IF Falsy(t.projectId) \/ Trim(t.projectId) = EmptyStr
    THEN Catch(t, QuotaError(<< "Project ID is required and cannot be empty" >>, 0))
    ELSE IssueQuotaCall([t EXCEPT !.lastError = NoError], 1)

\* variant: a 403 is retried like any other status
fetchQuotaWithRetryRetry403(t, r) ==
    IF r.net # "none"
    THEN IF t.attempt < MAX_RETRIES
         THEN [t EXCEPT !.pc = "delay", !.lastError = PlainError(NetMessage(r.net))]
         ELSE Catch(t, QuotaError(<< "Network error: " >> \o NetMessage(r.net), 0))
    ELSE IF ~ResOk(r)
    THEN IF t.attempt < MAX_RETRIES
         THEN [t EXCEPT !.pc = "delay"]
         ELSE Catch(t, QuotaError(<< "HTTP ", ToString(r.status) >>, r.status))
    ELSE Succeed(t, ParseQuotaBody(r.body, t.identity = "gemini-cli"))

\* variant: the loop bound is off by one (attempt <= MAX_RETRIES before the retry)
fetchQuotaWithRetryOffByOne(t, r) ==
    IF r.net # "none"
    THEN IF t.attempt <= MAX_RETRIES
         THEN [t EXCEPT !.pc = "delay", !.lastError = PlainError(NetMessage(r.net))]
         ELSE Catch(t, QuotaError(<< "Network error: " >> \o NetMessage(r.net), 0))
    ELSE IF ~ResOk(r)
    THEN IF r.status = HttpForbidden
         THEN Catch(t, QuotaError(<< "Forbidden", ": HTTP ", "403" >>, HttpForbidden))
         ELSE IF t.attempt <= MAX_RETRIES
         THEN [t EXCEPT !.pc = "delay"]
         ELSE Catch(t, QuotaError(<< "HTTP ", ToString(r.status) >>, r.status))
    ELSE Succeed(t, ParseQuotaBody(r.body, t.identity = "gemini-cli"))

\* variant: a timeout ends the fetch at once, only other network errors are retried
fetchQuotaWithRetryTimeoutFatal(t, r) ==
    IF r.net # "none"
    THEN IF t.attempt < MAX_RETRIES /\ r.net # "timeout"
         THEN [t EXCEPT !.pc = "delay", !.lastError = PlainError(NetMessage(r.net))]
         ELSE Catch(t, QuotaError(<< "Network error: " >> \o NetMessage(r.net), 0))
    ELSE IF ~ResOk(r)
    THEN IF r.status = HttpForbidden
         THEN Catch(t, QuotaError(<< "Forbidden", ": HTTP ", "403" >>, HttpForbidden))
         ELSE IF t.attempt < MAX_RETRIES
         THEN [t EXCEPT !.pc = "delay"]
         ELSE Catch(t, QuotaError(<< "HTTP ", ToString(r.status) >>, r.status))
    ELSE Succeed(t, ParseQuotaBody(r.body, t.identity = "gemini-cli"))


\* variant: a 2xx response whose body is not JSON is retried like an HTTP error
fetchQuotaWithRetryRetryMalformed(t, r) ==
    IF r.net # "none"
    THEN IF t.attempt < MAX_RETRIES
         THEN [t EXCEPT !.pc = "delay", !.lastError = PlainError(NetMessage(r.net))]
         ELSE Catch(t, QuotaError(<< "Network error: " >> \o NetMessage(r.net), 0))
    ELSE IF ~ResOk(r) \/ ~readJsonSafe(r.body)
    THEN IF r.status = HttpForbidden
         THEN Catch(t, QuotaError(<< "Forbidden", ": HTTP ", "403" >>, HttpForbidden))
         ELSE IF t.attempt < MAX_RETRIES
         THEN [t EXCEPT !.pc = "delay"]
         ELSE Catch(t, QuotaError(<< "HTTP ", ToString(r.status) >>, r.status))
    ELSE Succeed(t, ParseQuotaBody(r.body, t.identity = "gemini-cli"))

\* fetchQuotaWithRetry resumed by the outcome r of attempt t.attempt
fetchQuotaWithRetry(t, r) ==
    IF r.net # "none"
    THEN \* catch (err): not a QuotaError
         IF t.attempt < MAX_RETRIES
         THEN [t EXCEPT !.pc = "delay", !.lastError = PlainError(NetMessage(r.net))]
         ELSE Catch(t, QuotaError(<< "Network error: " >> \o NetMessage(r.net), 0))
    ELSE IF ~ResOk(r)
    THEN IF r.status = HttpForbidden
         THEN Catch(t, QuotaError(<< "Forbidden", ": HTTP ", "403" >>, HttpForbidden))
         ELSE IF t.attempt < MAX_RETRIES
         THEN [t EXCEPT !.pc = "delay"]
         ELSE Catch(t, QuotaError(<< "HTTP ", ToString(r.status) >>, r.status))
    ELSE Succeed(t, ParseQuotaBody(r.body, t.identity = "gemini-cli"))

\* delay(RETRY_DELAY_MS) elapsed: continue with the next attempt
fetchQuotaWithRetryNext(t) == IssueQuotaCall(t, t.attempt + 1)

-----------------------------------------------------------------------------
(* ensureProjectId (google/project.ts) *)

\* the JSON of a loadCodeAssist response: capKind is the type of
\* cloudaicompanionProject ("undef", "string", "object"), cap its value or its id
ProjectJson(parsed, projectId, capKind, cap) ==
    [parsed |-> parsed, projectId |-> projectId, capKind |-> capKind, cap |-> cap]

extractProjectId(json) ==
    IF ~json.parsed THEN Undef
    ELSE IF ~Falsy(json.projectId) THEN json.projectId
    ELSE IF json.capKind = "string" /\ ~Falsy(json.cap) THEN json.cap
    ELSE IF json.capKind = "object" /\ ~Falsy(json.cap) THEN json.cap
    ELSE Undef

\* variant: discovery authenticates with the refresh token of the identity
IssueProjectCallRefreshToken(t, ep) ==
    [t EXCEPT !.pc = "project", !.ep = ep,
              !.calls = Append(@, Call("project", LOAD_CODE_ASSIST_ENDPOINTS[ep],
                                       IdentityOf(t.account, t.identity).refreshToken,
                                       EmptyStr))]

IssueProjectCall(t, ep) ==
    [t EXCEPT !.pc = "project", !.ep = ep,
              !.calls = Append(@, Call("project", LOAD_CODE_ASSIST_ENDPOINTS[ep],
                                       t.accessToken, EmptyStr))]

\* how ensureProjectId leaves its synchronous part: it throws, returns or
\* starts the endpoint loop with a fetch
Throws(error) == [kind |-> "throw", error |-> error, value |-> Undef]
Returns(value) == [kind |-> "return", error |-> NoError, value |-> value]
Fetches == [kind |-> "fetch", error |-> NoError, value |-> Undef]

\* variant: a known project id is returned before the access token is looked at
ensureProjectIdKnownFirst(accessToken, projectId) ==
    IF ~Falsy(projectId) /\ Trim(projectId) # EmptyStr
    THEN Returns(Trim(projectId))
    ELSE IF Falsy(accessToken) \/ Trim(accessToken) = EmptyStr
    THEN Throws(ProjectError(<< "Access token is required and cannot be empty" >>, 0))
    ELSE Fetches

\* ensureProjectId({accessToken, projectId}) up to its first fetch
ensureProjectIdSync(accessToken, projectId) ==
    IF Falsy(accessToken) \/ Trim(accessToken) = EmptyStr
    THEN Throws(ProjectError(<< "Access token is required and cannot be empty" >>, 0))
    ELSE IF ~Falsy(projectId)
    THEN IF Trim(projectId) = EmptyStr
         THEN Throws(ProjectError(<< "Project ID cannot be empty" >>, 0))
         ELSE Returns(Trim(projectId))
    ELSE Fetches

\* ensureProjectId({accessToken, projectId: storedProjectId}) in a task: up to
\* its first fetch, then fetchQuota when it returns at once
ensureProjectId(t, storedProjectId) ==
    LET left == ensureProjectIdSync(t.accessToken, storedProjectId)
    IN  IF left.kind = "throw" THEN Catch(t, left.error)
        ELSE IF left.kind = "return" THEN fetchQuota([t EXCEPT !.projectId = left.value])
        ELSE IssueProjectCall(t, 1)

\* variant: when the last endpoint has failed too, a ProjectError is thrown
ensureProjectIdLoopThrows(t, r) ==
    LET found == IF r.net = "none" /\ ResOk(r) THEN extractProjectId(r.body) ELSE Undef
    IN  IF ~Falsy(found)
        THEN fetchQuota([t EXCEPT !.projectId = found, !.ep = 0])
        ELSE IF t.ep < Len(LOAD_CODE_ASSIST_ENDPOINTS)
        THEN IssueProjectCall(t, t.ep + 1)
        ELSE Catch(t, ProjectError(<< "All endpoints failed" >>, 0))

\* variant: a 2xx response without a project id ends the loop with the default
ensureProjectIdLoopGiveUp(t, r) ==
    LET found == IF r.net = "none" /\ ResOk(r) THEN extractProjectId(r.body) ELSE Undef
    IN  IF ~Falsy(found)
        THEN fetchQuota([t EXCEPT !.projectId = found, !.ep = 0])
        ELSE IF t.ep < Len(LOAD_CODE_ASSIST_ENDPOINTS) /\ ~(r.net = "none" /\ ResOk(r))
        THEN IssueProjectCall(t, t.ep + 1)
        ELSE fetchQuota([t EXCEPT !.projectId = DEFAULT_PROJECT_ID, !.ep = 0])

\* the loop over LOAD_CODE_ASSIST_ENDPOINTS resumed by the outcome r of endpoint t.ep
ensureProjectIdLoop(t, r) ==
    LET found == IF r.net = "none" /\ ResOk(r) THEN extractProjectId(r.body) ELSE Undef
    IN  IF ~Falsy(found)
        THEN fetchQuota([t EXCEPT !.projectId = found, !.ep = 0])
        ELSE IF t.ep < Len(LOAD_CODE_ASSIST_ENDPOINTS)
        THEN IssueProjectCall(t, t.ep + 1)
        ELSE fetchQuota([t EXCEPT !.projectId = DEFAULT_PROJECT_ID, !.ep = 0])

-----------------------------------------------------------------------------
(* refreshAccessToken and postToken (oauth/token.ts) *)

\* the JSON of a token response; expires_in -1 stands for "not a number"
TokenJson(parsed, error, error_description, access_token, expires_in) ==
    [parsed |-> parsed, error |-> error, error_description |-> error_description,
     access_token |-> access_token, expires_in |-> expires_in]

\* toExpiresAt(expiresIn)
toExpiresAt(expiresInSeconds, clock) == clock + expiresInSeconds

\* variant: a refresh that fails without invalid_grant is tried a second time
refreshAccessTokenRetrying(t, r, clock) ==
    IF (r.net # "none" \/ (~ResOk(r) /\ ~r.body.parsed)) /\ Len(t.calls) < 2
    THEN [t EXCEPT !.calls = Append(@, [t.calls[1] EXCEPT !.answer = Pending])]
    ELSE IF r.net # "none" THEN Catch(t, PlainError(NetMessage(r.net)))
    ELSE IF ~ResOk(r)
    THEN Catch(t, OAuthTokenError(<< "OAuth token request failed" >>, r.status,
                   IF r.body.parsed THEN r.body.error ELSE Undef,
                   IF r.body.parsed THEN r.body.error_description ELSE Undef))
    ELSE IF ~r.body.parsed \/ Falsy(r.body.access_token)
    THEN Catch(t, OAuthTokenError(<< "OAuth token response missing access_token" >>,
                                  200, Undef, Undef))
    ELSE LET expiresIn ==
                 IF r.body.expires_in >= 0 THEN r.body.expires_in ELSE DefaultExpiresIn
             storedProjectId ==
                 IF IdentityOf(t.account, t.identity).projectId # Undef
                 THEN IdentityOf(t.account, t.identity).projectId
                 ELSE t.account.projectId
         IN  ensureProjectId(
                 [t EXCEPT !.accessToken = r.body.access_token,
                           !.tokenCache = [set |-> TRUE,
                                           accessToken |-> r.body.access_token,
                                           expiresAt |-> toExpiresAt(expiresIn, clock)]],
                 storedProjectId)

\* postToken and the rest of refreshAccessToken, resumed by the outcome r of the
\* fetch; then fetchIdentityQuota continues with ensureProjectId
refreshAccessToken(t, r, clock) ==
    IF r.net # "none" THEN Catch(t, PlainError(NetMessage(r.net)))
    ELSE IF ~ResOk(r)
    THEN Catch(t, OAuthTokenError(<< "OAuth token request failed" >>, r.status,
                   IF r.body.parsed THEN r.body.error ELSE Undef,
                   IF r.body.parsed THEN r.body.error_description ELSE Undef))
    ELSE IF ~r.body.parsed \/ Falsy(r.body.access_token)
    THEN Catch(t, OAuthTokenError(<< "OAuth token response missing access_token" >>,
                                  200, Undef, Undef))
    ELSE LET expiresIn ==
                 IF r.body.expires_in >= 0 THEN r.body.expires_in ELSE DefaultExpiresIn
             storedProjectId ==
                 IF IdentityOf(t.account, t.identity).projectId # Undef
                 THEN IdentityOf(t.account, t.identity).projectId
                 ELSE t.account.projectId
         IN  ensureProjectId(
                 [t EXCEPT !.accessToken = r.body.access_token,
                           !.tokenCache = [set |-> TRUE,
                                           accessToken |-> r.body.access_token,
                                           expiresAt |-> toExpiresAt(expiresIn, clock)]],
                 storedProjectId)

-----------------------------------------------------------------------------
(* fetchIdentityQuota (commands/status.ts), from the call to its first await *)

fetchIdentityQuota(account, identity, clock) ==
    LET identityData == IdentityOf(account, identity)
        t == NewTask(account, identity)
        storedProjectId ==
            IF identityData.projectId # Undef THEN identityData.projectId
            ELSE account.projectId
    IN  IF isCachedTokenValid(identityData, clock)
        THEN ensureProjectId([t EXCEPT !.accessToken = identityData.cachedAccessToken],
                             storedProjectId)
        ELSE [t EXCEPT !.pc = "token",
                       !.calls = << Call("token", GOOGLE_OAUTH_TOKEN_ENDPOINT,
                                         identityData.refreshToken, << identity >>) >>]

-----------------------------------------------------------------------------
(* runStatus (commands/status.ts) *)

Account(email, projectId, antigravity, geminiCli) ==
    [email |-> email, projectId |-> projectId,
     antigravity |-> antigravity, geminiCli |-> geminiCli]

\* variant: the account filter is not applied
FilterAccountsIgnored(accounts, accountFilter) == accounts

\* accounts.filter((a) => a.email === options.accountFilter) when the filter is set
FilterAccounts(accounts, accountFilter) ==
    IF Falsy(accountFilter) THEN accounts
    ELSE SelectSeq(accounts, LAMBDA a : a.email = accountFilter)

\* variant: the identity only has to be present, its refresh token may be empty
QueuedPresentOnly(account, identity, identityFilter) ==
    /\ IdentityOf(account, identity).present
    /\ (identityFilter = "" \/ identityFilter = identity)

\* account.antigravity?.refreshToken (resp. geminiCli) is truthy and the identity
\* filter lets the identity through
Queued(account, identity, identityFilter) ==
    /\ IdentityOf(account, identity).present
    /\ ~Falsy(IdentityOf(account, identity).refreshToken)
    /\ (identityFilter = "" \/ identityFilter = identity)

\* variant: the gemini-cli task of an account is pushed before its antigravity task
AccountTasksGeminiFirst(account, identityFilter, clock) ==
    (IF Queued(account, "gemini-cli", identityFilter)
     THEN << fetchIdentityQuota(account, "gemini-cli", clock) >> ELSE << >>)
    \o
    (IF Queued(account, "antigravity", identityFilter)
     THEN << fetchIdentityQuota(account, "antigravity", clock) >> ELSE << >>)

\* the tasks one account pushes, antigravity first
AccountTasks(account, identityFilter, clock) ==
    (IF Queued(account, "antigravity", identityFilter)
     THEN << fetchIdentityQuota(account, "antigravity", clock) >> ELSE << >>)
    \o
    (IF Queued(account, "gemini-cli", identityFilter)
     THEN << fetchIdentityQuota(account, "gemini-cli", clock) >> ELSE << >>)

\* variant: the loop awaits each task before it starts the next, so that only the
\* first task has been started when runStatus first yields
RECURSIVE QueueTasksSerial(_, _, _)
QueueTasksSerial(accounts, identityFilter, clock) ==
    IF accounts = << >> THEN << >>
    ELSE LET first == AccountTasks(Head(accounts), identityFilter, clock)
         IN  IF first # << >> THEN << Head(first) >>
             ELSE QueueTasksSerial(Tail(accounts), identityFilter, clock)

\* the loop "for (const account of accounts)": every fetchIdentityQuota call runs
\* up to its first await before the loop goes on
RECURSIVE QueueTasks(_, _, _)
QueueTasks(accounts, identityFilter, clock) ==
    IF accounts = << >> THEN << >>
    ELSE AccountTasks(Head(accounts), identityFilter, clock)
         \o QueueTasks(Tail(accounts), identityFilter, clock)

\* accounts.findIndex((a) => a.email === email), 0 for -1
RECURSIVE FindIndexFrom(_, _, _)
FindIndexFrom(accounts, email, k) ==
    IF k > Len(accounts) THEN 0
    ELSE IF accounts[k].email = email THEN k
    ELSE FindIndexFrom(accounts, email, k + 1)

FindIndex(accounts, email) == FindIndexFrom(accounts, email, 1)

\* variant: the identity is rebuilt from the refresh token and the new cache
\* entry, without the spread of the existing identity
MergeTokenCacheNoSpread(accounts, result) ==
    LET accountIdx == FindIndex(accounts, result.email)
    IN  IF accountIdx = 0 THEN accounts
        ELSE LET acct == accounts[accountIdx]
                 existing == IdentityOf(acct, result.identity)
                 updated == Identity(existing.refreshToken, Undef,
                                     result.tokenCache.accessToken,
                                     result.tokenCache.expiresAt)
             IN  IF ~existing.present THEN accounts
                 ELSE IF result.identity = "antigravity"
                 THEN [accounts EXCEPT ![accountIdx].antigravity = updated]
                 ELSE [accounts EXCEPT ![accountIdx].geminiCli = updated]

\* variant: the refreshed token is stored under the other identity of the account
MergeTokenCacheOtherIdentity(accounts, result) ==
    LET accountIdx == FindIndex(accounts, result.email)
    IN  IF accountIdx = 0 THEN accounts
        ELSE LET acct == accounts[accountIdx]
                 other == IF result.identity = "antigravity" THEN "gemini-cli"
                          ELSE "antigravity"
                 existing == IdentityOf(acct, other)
                 updated == [existing EXCEPT
                                !.cachedAccessToken = result.tokenCache.accessToken,
                                !.cachedExpiresAt = result.tokenCache.expiresAt]
             IN  IF ~existing.present THEN accounts
                 ELSE IF other = "antigravity"
                 THEN [accounts EXCEPT ![accountIdx].antigravity = updated]
                 ELSE [accounts EXCEPT ![accountIdx].geminiCli = updated]

\* the body of "if (result.tokenCache)": merge one refreshed token into updatedStore
MergeTokenCache(accounts, result) ==
    LET accountIdx == FindIndex(accounts, result.email)
    IN  IF accountIdx = 0 THEN accounts
        ELSE LET acct == accounts[accountIdx]
                 existing == IdentityOf(acct, result.identity)
                 updated == [existing EXCEPT
                                !.cachedAccessToken = result.tokenCache.accessToken,
                                !.cachedExpiresAt = result.tokenCache.expiresAt]
             IN  IF ~existing.present THEN accounts
                 ELSE IF result.identity = "antigravity"
                 THEN [accounts EXCEPT ![accountIdx].antigravity = updated]
                 ELSE [accounts EXCEPT ![accountIdx].geminiCli = updated]

\* variant: storeNeedsUpdate is set for every result, refreshed or not
RECURSIVE CollectAlwaysSave(_, _)
CollectAlwaysSave(results, acc) ==
    IF results = << >> THEN acc
    ELSE LET result == Head(results)
             next ==
                 [reports |-> IF result.kind = "report"
                              THEN Append(acc.reports, result) ELSE acc.reports,
                  errors |-> IF result.kind = "error"
                             THEN Append(acc.errors, result) ELSE acc.errors,
                  storeNeedsUpdate |-> TRUE,
                  updatedStore |-> IF result.tokenCache.set
                                   THEN MergeTokenCache(acc.updatedStore, result)
                                   ELSE acc.updatedStore]
         IN  CollectAlwaysSave(Tail(results), next)

\* the loop "for (const result of results)": reports, errors, updatedStore
RECURSIVE Collect(_, _)
Collect(results, acc) ==
    IF results = << >> THEN acc
    ELSE LET result == Head(results)
             next ==
                 [reports |-> IF result.kind = "report"
                              THEN Append(acc.reports, result) ELSE acc.reports,
                  errors |-> IF result.kind = "error"
                             THEN Append(acc.errors, result) ELSE acc.errors,
                  storeNeedsUpdate |-> acc.storeNeedsUpdate \/ result.tokenCache.set,
                  updatedStore |-> IF result.tokenCache.set
                                   THEN MergeTokenCache(acc.updatedStore, result)
                                   ELSE acc.updatedStore]
         IN  Collect(Tail(results), next)

Results(ts) == [k \in 1..Len(ts) |-> ts[k].result]

NoSave == [state |-> "none", arg |-> << >>]

\* runCli, case "status": the exit code for the way runStatus ended
runCli(pc, rs, es) ==
    IF pc = "threw" THEN 2
    ELSE IF Len(rs) = 0 /\ Len(es) > 0 THEN 2 ELSE 0

-----------------------------------------------------------------------------
(* The stores and options a run starts from *)

Now0 == 1000

EmailA == << "a@example.com" >>
EmailB == << "b@example.com" >>

RefreshTokenOf(email, identity) == << "refresh:" >> \o email \o << identity >>
CachedTokenOf(email, identity) == << "cached:" >> \o email \o << identity >>
KnownProject == << "project-1" >>

\* the credentials an identity of an account can have in the store
IdentityShapes(email, identity) ==
    LET rt == RefreshTokenOf(email, identity)
        ct == CachedTokenOf(email, identity)
    IN  { NoIdentity,
          Identity(EmptyStr, KnownProject, Undef, 0),
          Identity(rt, KnownProject, Undef, 0),
          Identity(rt, Undef, Undef, 0),
          Identity(rt, KnownProject, ct, Now0 + TOKEN_CACHE_MARGIN_S + 1),
          Identity(rt, Undef, ct, Now0 + TOKEN_CACHE_MARGIN_S + 1),
          Identity(rt, KnownProject, ct, Now0 + TOKEN_CACHE_MARGIN_S),
          Identity(rt, KnownProject, EmptyStr, Now0 + TOKEN_CACHE_MARGIN_S + 1) }

\* the plain credentials: none, and a refresh token with a known project
PlainShapes(email, identity) ==
    { NoIdentity, Identity(RefreshTokenOf(email, identity), KnownProject, Undef, 0) }

\* the credentials of the stores with two accounts
WideShapes(email, identity) ==
    { Identity(RefreshTokenOf(email, identity), KnownProject, Undef, 0) }

AccountsOf(email, shapeA(_, _), shapeG(_, _)) ==
    { Account(email, Undef, ag, gc) :
        ag \in shapeA(email, "antigravity"), gc \in shapeG(email, "gemini-cli") }

\* one account with any credential for one identity and a plain one for the
\* other, and two accounts with both identities
Stores ==
    { << a >> : a \in AccountsOf(EmailA, IdentityShapes, PlainShapes)
                      \cup AccountsOf(EmailA, PlainShapes, IdentityShapes) }
    \cup { << a, b >> : a \in AccountsOf(EmailA, WideShapes, WideShapes),
                        b \in AccountsOf(EmailB, WideShapes, WideShapes) }

\* the store files of a config directory
Files(current, legacy, legacyAccounts) ==
    [current |-> current, legacy |-> legacy, legacyAccounts |-> legacyAccounts]

\* the accounts of a legacy store file left by an earlier version
LegacyStores ==
    { << a >> : a \in AccountsOf(EmailA, WideShapes, PlainShapes) }

\* readStoreFile: the accounts of a store file that exists and parses
readStoreFile(exists, accounts) == [defined |-> exists, accounts |-> accounts]

\* loadStore without the write of the migration: current, else legacy, else emptyStore()
loadStore(f, accounts) ==
    LET current == readStoreFile(f.current, accounts)
        legacy == readStoreFile(f.legacy, f.legacyAccounts)
    IN  IF current.defined THEN [accounts |-> current.accounts, migrate |-> FALSE]
        ELSE IF legacy.defined THEN [accounts |-> legacy.accounts, migrate |-> TRUE]
        ELSE [accounts |-> << >>, migrate |-> FALSE]

\* an account with its timestamps, and the accounts of a store without them
Stamped(account, addedAt, updatedAt) ==
    [email |-> account.email, projectId |-> account.projectId,
     antigravity |-> account.antigravity, geminiCli |-> account.geminiCli,
     addedAt |-> addedAt, updatedAt |-> updatedAt]

Unstamped(accounts) ==
    [k \in DOMAIN accounts |->
        Account(accounts[k].email, accounts[k].projectId,
                accounts[k].antigravity, accounts[k].geminiCli)]

\* partial.addedAt / partial.updatedAt when the key is absent
NoStamp == -1

\* Partial<UsageOpencodeAccount> & { email }: an identity that is not present
\* and a timestamp NoStamp are keys the partial does not have
PartialAccount(email, hasProjectId, projectId, antigravity, geminiCli, addedAt, updatedAt) ==
    [email |-> email, hasProjectId |-> hasProjectId, projectId |-> projectId,
     antigravity |-> antigravity, geminiCli |-> geminiCli,
     addedAt |-> addedAt, updatedAt |-> updatedAt]

\* variant: the account of the email is replaced by what the partial has
upsertAccountReplace(accounts, partial, clock) ==
    LET existingIndex == FindIndex(accounts, partial.email)
        nextAccount ==
            [email |-> partial.email,
             projectId |-> IF partial.hasProjectId THEN partial.projectId ELSE Undef,
             antigravity |-> partial.antigravity,
             geminiCli |-> partial.geminiCli,
             addedAt |-> IF partial.addedAt # NoStamp THEN partial.addedAt ELSE clock,
             updatedAt |-> IF partial.updatedAt # NoStamp THEN partial.updatedAt ELSE clock]
    IN  IF existingIndex = 0 THEN Append(accounts, nextAccount)
        ELSE [accounts EXCEPT ![existingIndex] = nextAccount]

\* variant: the merged account is appended, the existing one stays
upsertAccountAppend(accounts, partial, clock) ==
    LET existingIndex == FindIndex(accounts, partial.email)
        existing == IF existingIndex = 0
                    THEN Stamped(Account(partial.email, Undef, NoIdentity, NoIdentity),
                                 clock, clock)
                    ELSE accounts[existingIndex]
    IN  Append(accounts,
               [email |-> partial.email,
                projectId |-> IF partial.hasProjectId THEN partial.projectId
                              ELSE existing.projectId,
                antigravity |-> IF partial.antigravity.present THEN partial.antigravity
                                ELSE existing.antigravity,
                geminiCli |-> IF partial.geminiCli.present THEN partial.geminiCli
                              ELSE existing.geminiCli,
                addedAt |-> IF partial.addedAt # NoStamp THEN partial.addedAt
                            ELSE existing.addedAt,
                updatedAt |-> IF partial.updatedAt # NoStamp THEN partial.updatedAt
                              ELSE clock])

\* upsertAccount: clock is Date.now(); the accounts of the returned store
upsertAccount(accounts, partial, clock) ==
    LET existingIndex == FindIndex(accounts, partial.email)
        nextAccount ==
            [email |-> partial.email,
             projectId |-> IF partial.hasProjectId THEN partial.projectId ELSE Undef,
             antigravity |-> partial.antigravity,
             geminiCli |-> partial.geminiCli,
             addedAt |-> IF partial.addedAt # NoStamp THEN partial.addedAt ELSE clock,
             updatedAt |-> IF partial.updatedAt # NoStamp THEN partial.updatedAt ELSE clock]
        existing == accounts[existingIndex]
        \* { ...existing, ...partial, antigravity: .. ?? .., geminiCli: .. ?? .., updatedAt: .. ?? now }
        merged ==
            [email |-> partial.email,
             projectId |-> IF partial.hasProjectId THEN partial.projectId
                           ELSE existing.projectId,
             antigravity |-> IF partial.antigravity.present THEN partial.antigravity
                             ELSE existing.antigravity,
             geminiCli |-> IF partial.geminiCli.present THEN partial.geminiCli
                           ELSE existing.geminiCli,
             addedAt |-> IF partial.addedAt # NoStamp THEN partial.addedAt
                         ELSE existing.addedAt,
             updatedAt |-> IF partial.updatedAt # NoStamp THEN partial.updatedAt ELSE clock]
    IN  IF existingIndex = 0 THEN Append(accounts, nextAccount)
        ELSE [accounts EXCEPT ![existingIndex] = merged]

\* number of tasks runStatus starts for a store under the options
Width(accounts, options) ==
    Cardinality({ <<k, identity>> \in (DOMAIN accounts) \X QuotaIdentity :
        /\ Falsy(options.accountFilter) \/ accounts[k].email = options.accountFilter
        /\ options.identityFilter \in {"", identity}
        /\ ~Falsy(IdentityOf(accounts[k], identity).refreshToken) })

\* the email of the second account in another case
EmailBUpper == << "B@example.com" >>

Options ==
    [accountFilter : {Undef, EmailB, EmailBUpper},
     identityFilter : {"", "antigravity", "gemini-cli"}]

-----------------------------------------------------------------------------
(* What the remote side can answer *)

\* the lifetime the token endpoint normally states
NominalExpiresIn == 3599

\* the token endpoint mints an access token for the refresh token it was sent
AccessTokenFor(refreshToken) == << "access-of:" >> \o refreshToken

NoTokenJson == TokenJson(FALSE, Undef, Undef, Undef, -1)

TokenResponses(call) ==
    { Response("none", 200, TokenJson(TRUE, Undef, Undef, AccessTokenFor(call.auth), e)) :
        e \in {-1, NominalExpiresIn} }
    \cup { Response("none", 200, TokenJson(TRUE, Undef, Undef, Undef, -1)),
           Response("none", 400, TokenJson(TRUE, << "invalid_grant" >>,
                                           << "Token has been expired or revoked." >>,
                                           Undef, -1)),
           Response("none", 401, TokenJson(TRUE, << "invalid_client" >>,
                                           << "Unauthorized" >>, Undef, -1)),
           Response("none", 403, NoTokenJson),
           Response("none", 403, TokenJson(TRUE, << "invalid_grant" >>,
                                           << "Account has been disabled." >>,
                                           Undef, -1)),
           Response("none", 500, NoTokenJson),
           Response("error", 0, NoTokenJson) }

DiscoveredProject == << "discovered-1" >>

NoProjectJson == ProjectJson(FALSE, Undef, "undef", Undef)

ProjectResponses ==
    { Response("none", 200, ProjectJson(TRUE, DiscoveredProject, "undef", Undef)),
      Response("none", 200, ProjectJson(TRUE, Undef, "string", DiscoveredProject)),
      Response("none", 200, ProjectJson(TRUE, Undef, "object", DiscoveredProject)),
      Response("none", 200, ProjectJson(TRUE, Undef, "object", Undef)),
      Response("none", 200, NoProjectJson),
      Response("none", 500, NoProjectJson),
      Response("error", 0, NoProjectJson),
      Response("timeout", 0, NoProjectJson) }

QuotaResponses ==
    { Response("none", 200, b) : b \in QuotaBodies }
    \cup { Response("none", 403, EmptyBody),
           Response("none", 500, EmptyBody),
           Response("error", 0, EmptyBody),
           Response("timeout", 0, EmptyBody) }

\* a response that is not the nominal one counts against MaxDeviations
TokenDeviates(r) ==
    r.net # "none" \/ ~ResOk(r) \/ Falsy(r.body.access_token)
    \/ r.body.expires_in # NominalExpiresIn
ProjectDeviates(r) == r.net # "none" \/ ~ResOk(r) \/ Falsy(extractProjectId(r.body))
QuotaDeviates(r, identity) ==
    r.net # "none" \/ ~ResOk(r)
    \/ r.body # (IF identity = "gemini-cli" THEN BucketsBody ELSE ModelsBody)

\* what can come back for a call: anything the remote side can send, or, when the
\* remote side stays silent, only what the caller's own timer produces
Outcomes(call, responses) ==
    IF call.answer = Silent THEN { r \in responses : r.net = "timeout" } ELSE responses

Charge(deviates) ==
    /\ deviates => deviations <
                      (IF Len(tasks) > MaxWidth THEN MaxWideDeviations ELSE MaxDeviations)
    /\ deviations' = IF deviates THEN deviations + 1 ELSE deviations

-----------------------------------------------------------------------------
(* The state machine *)

NoProbe == [op |-> "none", input |-> << >>, output |-> << >>]

NoFs == [store |-> 0, tmp |-> 0, inodes |-> << >>, calls |-> << >>]

\* the current store file exists, or only a legacy one does, or none
InitFiles ==
    \/ /\ disk \in Stores
       /\ files = Files(TRUE, FALSE, << >>)
    \/ /\ disk = << >>
       /\ files \in { Files(FALSE, TRUE, l) : l \in LegacyStores }
                   \cup { Files(FALSE, FALSE, << >>) }

InitWide ==
    /\ InitFiles
    /\ probe = NoProbe
    /\ fs = NoFs
    /\ opts \in Options
    /\ now = Now0
    /\ runPc = "idle"
    /\ store = << >>
    /\ tasks = << >>
    /\ reports = << >>
    /\ errors = << >>
    /\ save = NoSave
    /\ deviations = 0

\* runStatus is called: it awaits deps.loadStore
RunStatus ==
    /\ runPc = "idle"
    /\ runPc' = "loading"
    /\ UNCHANGED <<disk, opts, now, store, tasks, reports, errors, save, deviations,
                   files, probe, fs>>

\* loadStore resolves (after the write of the migration, when there is one):
\* filter the accounts, start every task, await Promise.all
LoadStoreResolves ==
    /\ runPc = "loading"
    /\ LET loaded == loadStore(files, disk)
       IN  /\ store' = loaded.accounts
           /\ disk' = IF loaded.migrate THEN loaded.accounts ELSE disk
           /\ files' = IF loaded.migrate THEN [files EXCEPT !.current = TRUE] ELSE files
           /\ tasks' = QueueTasks(FilterAccounts(loaded.accounts, opts.accountFilter),
                                  opts.identityFilter, now)
    /\ runPc' = "awaiting"
    /\ UNCHANGED <<opts, now, reports, errors, save, deviations, probe, fs>>

\* loadStore rejects: the saveStore of the migration failed, and runStatus throws
LoadStoreRejects ==
    /\ runPc = "loading"
    /\ loadStore(files, disk).migrate
    /\ runPc' = "threw"
    /\ UNCHANGED <<disk, opts, now, store, tasks, reports, errors, save, deviations,
                   files, probe, fs>>

\* the token endpoint answers task i (or its fetch fails)
TokenResponds(i) ==
    /\ runPc = "awaiting"
    /\ tasks[i].pc = "token"
    /\ \E r \in Outcomes(LastCall(tasks[i]), TokenResponses(LastCall(tasks[i]))) :
          /\ Charge(TokenDeviates(r) /\ LastCall(tasks[i]).answer # Silent)
          /\ tasks' = [tasks EXCEPT ![i] =
                        refreshAccessToken(
                            Answered(tasks[i], Answer(r.net, r.status, r.body)), r, now)]
    /\ UNCHANGED <<disk, opts, now, runPc, store, reports, errors, save,
                   files, probe, fs>>

\* a loadCodeAssist endpoint answers task i (or its fetch fails or times out)
ProjectResponds(i) ==
    /\ runPc = "awaiting"
    /\ tasks[i].pc = "project"
    /\ \E r \in Outcomes(LastCall(tasks[i]), ProjectResponses) :
          /\ Charge(ProjectDeviates(r) /\ LastCall(tasks[i]).answer # Silent)
          /\ tasks' = [tasks EXCEPT ![i] =
                        ensureProjectIdLoop(
                            Answered(tasks[i],
                                     Answer("none", 0, extractProjectId(r.body))), r)]
    /\ UNCHANGED <<disk, opts, now, runPc, store, reports, errors, save,
                   files, probe, fs>>

\* the quota endpoint answers task i (or its fetch fails or times out)
QuotaResponds(i) ==
    /\ runPc = "awaiting"
    /\ tasks[i].pc = "quota"
    /\ \E r \in Outcomes(LastCall(tasks[i]), QuotaResponses) :
          /\ Charge(QuotaDeviates(r, tasks[i].identity) /\ LastCall(tasks[i]).answer # Silent)
          /\ tasks' = [tasks EXCEPT ![i] =
                        fetchQuotaWithRetry(
                            Answered(tasks[i], Answer(r.net, r.status, r.body)), r)]
    /\ UNCHANGED <<disk, opts, now, runPc, store, reports, errors, save,
                   files, probe, fs>>

\* the remote side never responds to the call task i is waiting for
RemoteNeverAnswers(i) ==
    /\ runPc = "awaiting"
    /\ tasks[i].pc \in {"token", "project", "quota"}
    /\ LastCall(tasks[i]).answer = Pending
    /\ Charge(TRUE)
    /\ tasks' = [tasks EXCEPT ![i] = Answered(tasks[i], Silent)]
    /\ UNCHANGED <<disk, opts, now, runPc, store, reports, errors, save,
                   files, probe, fs>>

\* the retry delay of task i elapses
DelayElapses(i) ==
    /\ runPc = "awaiting"
    /\ tasks[i].pc = "delay"
    /\ tasks' = [tasks EXCEPT ![i] = fetchQuotaWithRetryNext(tasks[i])]
    /\ UNCHANGED <<disk, opts, now, runPc, store, reports, errors, save, deviations,
                   files, probe, fs>>

\* Promise.all(tasks) settles: it rejects as soon as one task has rejected and
\* resolves once all are fulfilled; runStatus then collects, starts the
\* fire-and-forget saveStore and returns
PromiseAllSettles ==
    /\ runPc = "awaiting"
    /\ \/ \E i \in DOMAIN tasks : tasks[i].pc = "rejected"
       \/ \A i \in DOMAIN tasks : tasks[i].pc = "done"
    /\ IF \E i \in DOMAIN tasks : tasks[i].pc = "rejected"
       THEN /\ runPc' = "threw"
            /\ UNCHANGED <<reports, errors, save>>
       ELSE LET c == Collect(Results(tasks),
                             [reports |-> << >>, errors |-> << >>,
                              storeNeedsUpdate |-> FALSE, updatedStore |-> store])
            IN  /\ reports' = c.reports
                /\ errors' = c.errors
                /\ save' = IF c.storeNeedsUpdate
                           THEN [state |-> "pending", arg |-> c.updatedStore]
                           ELSE save
                /\ runPc' = "returned"
    /\ UNCHANGED <<disk, opts, now, store, tasks, deviations,
                   files, probe, fs>>

\* variant: saveStore is awaited without a catch, a failed write rejects runStatus
SaveStoreSettlesAwaited ==
    /\ save.state = "pending"
    /\ \/ /\ disk' = save.arg
          /\ save' = [save EXCEPT !.state = "saved"]
          /\ UNCHANGED <<runPc, reports, errors>>
       \/ /\ disk' = disk
          /\ save' = [save EXCEPT !.state = "failed"]
          /\ runPc' = "threw"
          /\ reports' = << >>
          /\ errors' = << >>
    /\ UNCHANGED <<opts, now, store, tasks, deviations,
                   files, probe, fs>>

\* the detached saveStore settles: the file is replaced, or the write fails and
\* the .catch swallows the error
SaveStoreSettles ==
    /\ save.state = "pending"
    /\ \/ /\ disk' = save.arg
          /\ save' = [save EXCEPT !.state = "saved"]
       \/ /\ disk' = disk
          /\ save' = [save EXCEPT !.state = "failed"]
    /\ UNCHANGED <<opts, now, runPc, store, tasks, reports, errors, deviations,
                   files, probe, fs>>

Next ==
    \/ RunStatus
    \/ LoadStoreResolves
    \/ LoadStoreRejects
    \/ \E i \in DOMAIN tasks : TokenResponds(i)
    \/ \E i \in DOMAIN tasks : ProjectResponds(i)
    \/ \E i \in DOMAIN tasks : QuotaResponds(i)
    \/ \E i \in DOMAIN tasks : DelayElapses(i)
    \/ \E i \in DOMAIN tasks : RemoteNeverAnswers(i)
    \/ PromiseAllSettles
    \/ SaveStoreSettles

\* every store and option
SpecWide == InitWide /\ [][Next]_vars

\* the runs of at most MaxWidth tasks
Init == InitWide /\ Width(loadStore(files, disk).accounts, opts) <= MaxWidth

Spec == Init /\ [][Next]_vars

\* the refresh token a new login of an identity obtains
NewRefreshTokenOf(email, identity) == << "refresh-2:" >> \o email \o << identity >>

\* accountUpdate of runLogin for the antigravity identity of EmailB
LoginUpdate ==
    PartialAccount(EmailB, FALSE, Undef,
                   Identity(NewRefreshTokenOf(EmailB, "antigravity"), Undef, Undef, 0),
                   NoIdentity, NoStamp, NoStamp)

\* a login command in another process ends while the status run is between its
\* loadStore and the end of its saveStore: it has upserted the account into the
\* store it loaded and saves it
LoginSaves ==
    /\ runPc = "awaiting" \/ save.state = "pending"
    /\ LET saved == Unstamped(upsertAccount(
                        [k \in DOMAIN disk |-> Stamped(disk[k], now, now)],
                        LoginUpdate, now))
       IN  /\ saved # disk
           /\ disk' = saved
    /\ files' = [files EXCEPT !.current = TRUE]
    /\ UNCHANGED <<opts, now, runPc, store, tasks, reports, errors, save, deviations,
                   probe, fs>>

NextShared ==
    \/ Next
    \/ LoginSaves

\* the status run with a login command running beside it
SpecShared == Init /\ [][NextShared]_vars

\* the event loop keeps running: a response that has arrived, a timer that has
\* expired and a settled promise are all eventually handled
SpecLive == Init /\ [][Next]_vars /\ WF_vars(Next)

-----------------------------------------------------------------------------
(* The functions of the program applied on their own *)

Probe(op, input) == [op |-> op, input |-> input, output |-> << >>]

\* access tokens and project ids as a caller can pass them
SampleToken == << "ya29.token" >>
AccessTokenInputs ==
    { Undef, EmptyStr, << " " >>, << " ", " " >>, SampleToken, << " " >> \o SampleToken }
ProjectIdInputs ==
    { Undef, EmptyStr, << " " >>, << " ", " " >>, KnownProject,
      << " " >> \o KnownProject \o << " " >>, KnownProject \o << " " >>,
      << "my", " ", "project" >> }

\* model names of a quota response; a bucket can also come without a modelId
ModelNames ==
    { << "gemini", "-x" >>, << "Claude", "-y" >>, << "imagen", "-z" >>,
      << "unrelated", "-w" >>, << "IMAGE", "-1" >>, << "x-", "GEMINI" >>,
      << "gpt", "-4" >>, EmptyStr }

EntryInputs ==
    { ModelEntry(n, q, f, r) :
        n \in ModelNames \cup {Undef}, q \in BOOLEAN,
        f \in {NoFraction, Fraction(0), Fraction(755), Fraction(FracDen)},
        r \in {Undef, SampleReset} }

PartialEntries ==
    { e \in EntryInputs :
        /\ e.name \in {<< "gemini", "-x" >>, << "Claude", "-y" >>, << "unrelated", "-w" >>, Undef}
        /\ e.remainingFraction \in {NoFraction, Fraction(755)} }

\* the response of the model filtering test, with one more model
FourEntries ==
    << ModelEntry(<< "gemini", "-x" >>, TRUE, Fraction(755), SampleReset),
       ModelEntry(<< "Claude", "-y" >>, FALSE, NoFraction, Undef),
       ModelEntry(<< "imagen", "-z" >>, TRUE, Fraction(500), SampleReset),
       ModelEntry(<< "unrelated", "-w" >>, TRUE, Fraction(500), SampleReset) >>

\* one model with each fraction 0 / FracDen .. FracDen / FracDen
FractionEntries ==
    { << ModelEntry(<< "gemini", "-x" >>, TRUE, Fraction(n), SampleReset) >> :
        n \in 0..FracDen }

\* one model with a fraction the backend should not send: -1 and 2
OutOfRangeEntries ==
    { << ModelEntry(<< "gemini", "-x" >>, TRUE, Fraction(n), SampleReset) >> :
        n \in {-FracDen, 2 * FracDen} }

ParseInputs ==
    { << e >> : e \in EntryInputs } \cup { << a, b >> : a, b \in PartialEntries }
        \cup FractionEntries \cup { FourEntries } \cup OutOfRangeEntries

\* the stores upsertAccount starts from: none, one and two accounts
EmailC == << "c@example.com" >>
FullAccount(email) ==
    Account(email, KnownProject,
            Identity(RefreshTokenOf(email, "antigravity"), KnownProject,
                     CachedTokenOf(email, "antigravity"), Now0 + TOKEN_CACHE_MARGIN_S + 1),
            Identity(RefreshTokenOf(email, "gemini-cli"), Undef, Undef, 0))
UpsertStores ==
    { << >>,
      << Stamped(FullAccount(EmailA), 1, 2) >>,
      << Stamped(FullAccount(EmailA), 1, 2), Stamped(FullAccount(EmailB), 3, 4) >> }

\* the partials of a call: what a login passes (an email and one identity),
\* and partials with both identities, with none and a project id, and with
\* timestamps
SecondProject == << "project-2" >>
Partials ==
    { PartialAccount(email, ~(ag \/ gc), IF ag \/ gc THEN Undef ELSE SecondProject,
                     IF ag THEN Identity(NewRefreshTokenOf(email, "antigravity"),
                                         Undef, Undef, 0)
                     ELSE NoIdentity,
                     IF gc THEN Identity(NewRefreshTokenOf(email, "gemini-cli"),
                                         SecondProject, Undef, 0)
                     ELSE NoIdentity,
                     stamps[1], stamps[2]) :
        email \in {EmailA, EmailB, EmailC}, ag \in BOOLEAN, gc \in BOOLEAN,
        stamps \in { << NoStamp, NoStamp >>, << 5, 7 >>, << 5, NoStamp >> } }

\* the number of upsertAccount calls in a row
MaxUpserts == 2

ProbeInputs ==
    { Probe("ensureProjectId", [accessToken |-> a, projectId |-> p]) :
        a \in AccessTokenInputs, p \in ProjectIdInputs }
        \cup { Probe("parse", entries) : entries \in ParseInputs }
        \cup { Probe("storage", << >>) }
        \cup { Probe("upsertAccount", << accounts >>) : accounts \in UpsertStores }

-----------------------------------------------------------------------------
(* The store file (storage.ts).  The text of a file is a sequence of chunks: *)
(* the opening with the version, one chunk per account, the closing.  A      *)
(* directory entry names an inode (0: no such file), a file descriptor keeps *)
(* its inode whatever happens to the name.                                   *)

Member(key, value) == [key |-> key, value |-> value]
Chunk(kind, members) == [kind |-> kind, members |-> members]

\* variant: a property with a falsy value is left out too
JsonIdentityTruthy(id) ==
    (IF Falsy(id.refreshToken) THEN << >> ELSE << Member("refreshToken", id.refreshToken) >>)
    \o (IF Falsy(id.projectId) THEN << >> ELSE << Member("projectId", id.projectId) >>)
    \o (IF Falsy(id.cachedAccessToken) THEN << >>
        ELSE << Member("cachedAccessToken", id.cachedAccessToken) >>)
    \o (IF id.cachedExpiresAt = 0 THEN << >>
        ELSE << Member("cachedExpiresAt", id.cachedExpiresAt) >>)

\* JSON.stringify leaves out a property whose value is undefined
JsonIdentity(id) ==
    (IF id.refreshToken = Undef THEN << >> ELSE << Member("refreshToken", id.refreshToken) >>)
    \o (IF id.projectId = Undef THEN << >> ELSE << Member("projectId", id.projectId) >>)
    \o (IF id.cachedAccessToken = Undef THEN << >>
        ELSE << Member("cachedAccessToken", id.cachedAccessToken) >>)
    \o (IF id.cachedExpiresAt = 0 THEN << >>
        ELSE << Member("cachedExpiresAt", id.cachedExpiresAt) >>)

JsonAccount(a) ==
    << Member("email", a.email) >>
    \o (IF a.projectId = Undef THEN << >> ELSE << Member("projectId", a.projectId) >>)
    \o (IF ~a.antigravity.present THEN << >>
        ELSE << Member("antigravity", JsonIdentity(a.antigravity)) >>)
    \o (IF ~a.geminiCli.present THEN << >>
        ELSE << Member("geminiCli", JsonIdentity(a.geminiCli)) >>)

\* JSON.stringify(store, null, 2) + "\n" of { version: 1, accounts }
JSONstringify(accounts) ==
    << Chunk("open", << Member("version", 1) >>) >>
    \o [k \in DOMAIN accounts |-> Chunk("account", JsonAccount(accounts[k]))]
    \o << Chunk("close", << >>) >>

\* object[key], undefined (or the given default) when the object has no such property
Has(members, key) == \E k \in DOMAIN members : members[k].key = key

Get(members, key, default) ==
    IF Has(members, key)
    THEN members[CHOOSE k \in DOMAIN members : members[k].key = key].value
    ELSE default

ParsedIdentity(members) ==
    Identity(Get(members, "refreshToken", Undef), Get(members, "projectId", Undef),
             Get(members, "cachedAccessToken", Undef), Get(members, "cachedExpiresAt", 0))

ParsedAccount(members) ==
    Account(Get(members, "email", Undef), Get(members, "projectId", Undef),
            IF ~Has(members, "antigravity") THEN NoIdentity
            ELSE ParsedIdentity(Get(members, "antigravity", Undef)),
            IF ~Has(members, "geminiCli") THEN NoIdentity
            ELSE ParsedIdentity(Get(members, "geminiCli", Undef)))

\* JSON.parse: a text is an object when it is an opening, accounts and a closing
\* with nothing after it
JSONparse(text) ==
    LET wellFormed ==
            /\ Len(text) >= 2
            /\ text[1].kind = "open"
            /\ text[Len(text)].kind = "close"
            /\ \A k \in 2..(Len(text) - 1) : text[k].kind = "account"
    IN  IF ~wellFormed THEN [ok |-> FALSE, version |-> 0, accounts |-> << >>]
        ELSE [ok |-> TRUE,
              version |-> Get(text[1].members, "version", 0),
              accounts |-> [k \in 1..(Len(text) - 2) |-> ParsedAccount(text[k + 1].members)]]

\* readFile and readStoreFile on the directory: undefined when there is no such
\* file, when it does not parse or when it is not a version 1 store
ReadStoreFile(dir, inode) ==
    LET parsed == JSONparse(dir.inodes[inode])
    IN  IF inode = 0 THEN readStoreFile(FALSE, << >>)
        ELSE readStoreFile(parsed.ok /\ parsed.version = 1, parsed.accounts)

\* write(fd, text) at offset 0: what the file held beyond the text stays
WriteAt0(old, text) == text \o SubSeq(old, Len(text) + 1, Len(old))

\* the two commands that save the store
Callers == {"status", "login"}

NoCall == [pc |-> "idle", arg |-> << >>, fd |-> 0]

\* the stores a caller saves: any store for the write-back of status, a short
\* and a long one for login
EmptyStore == << >>
SaveArgs(caller) ==
    IF caller = "status" THEN Stores \cup {EmptyStore}
    ELSE { << a >> : a \in AccountsOf(EmailB, WideShapes, WideShapes) } \cup
         { << a, b >> : a \in AccountsOf(EmailA, WideShapes, WideShapes),
                        b \in AccountsOf(EmailB, WideShapes, PlainShapes) }

\* a config directory with no store file, and one with a store file
Directory(accounts) ==
    [store |-> 1, tmp |-> 0, inodes |-> << JSONstringify(accounts) >>,
     calls |-> [c \in Callers |-> NoCall]]

InitialDirectories ==
    { [NoFs EXCEPT !.calls = [c \in Callers |-> NoCall]] }
    \cup { Directory(accounts) : accounts \in SaveArgs("login") }

InitUnit ==
    /\ probe \in ProbeInputs
    /\ disk = << >>
    /\ files = Files(FALSE, FALSE, << >>)
    /\ IF probe.op = "storage" THEN fs \in InitialDirectories ELSE fs = NoFs
    /\ opts = [accountFilter |-> Undef, identityFilter |-> ""]
    /\ now = Now0
    /\ runPc = "idle"
    /\ store = << >>
    /\ tasks = << >>
    /\ reports = << >>
    /\ errors = << >>
    /\ save = NoSave
    /\ deviations = 0

\* ensureProjectId is called and runs up to its first fetch
EnsureProjectIdCalled ==
    /\ probe.op = "ensureProjectId"
    /\ probe.output = << >>
    /\ probe' = [probe EXCEPT !.output =
                    << ensureProjectIdSync(probe.input.accessToken, probe.input.projectId) >>]
    /\ UNCHANGED <<disk, opts, now, runPc, store, tasks, reports, errors, save,
                   deviations, files, fs>>

\* the output of a parser applied to the probe's entries, if it was applied
ParsedBy(fn) ==
    { probe.output[k].value : k \in { j \in DOMAIN probe.output : probe.output[j].fn = fn } }

\* the entries as the models object of a fetchAvailableModels response: every
\* model has a name as its key and no two models share one
IsModelsObject(entries) ==
    /\ \A k \in DOMAIN entries : entries[k].name # Undef
    /\ \A j, k \in DOMAIN entries : entries[j].name = entries[k].name => j = k

ParseQuotaResponseCalled ==
    /\ probe.op = "parse"
    /\ IsModelsObject(probe.input)
    /\ ParsedBy("parseQuotaResponse") = {}
    /\ probe' = [probe EXCEPT !.output =
                    Append(@, [fn |-> "parseQuotaResponse",
                               value |-> parseQuotaResponse(probe.input)])]
    /\ UNCHANGED <<disk, opts, now, runPc, store, tasks, reports, errors, save,
                   deviations, files, fs>>

\* the entries as the buckets of a retrieveUserQuota response
ParseUserQuotaResponseCalled ==
    /\ probe.op = "parse"
    /\ ParsedBy("parseUserQuotaResponse") = {}
    /\ probe' = [probe EXCEPT !.output =
                    Append(@, [fn |-> "parseUserQuotaResponse",
                               value |-> parseUserQuotaResponse(probe.input)])]
    /\ UNCHANGED <<disk, opts, now, runPc, store, tasks, reports, errors, save,
                   deviations, files, fs>>

UnitIdle == <<disk, opts, now, runPc, store, tasks, reports, errors, save, deviations, files>>

\* saveStore up to its first await: the path is computed and mkdir is started
SaveStoreCalled(c, accounts) ==
    /\ probe.op = "storage"
    /\ fs.calls[c].pc = "idle"
    /\ fs' = [fs EXCEPT !.calls[c] = [pc |-> "open", arg |-> accounts, fd |-> 0]]
    /\ UNCHANGED <<UnitIdle, probe>>

\* writeFile opens `${storePath}.tmp` with flag "w": the file is created, or
\* truncated when it exists
TempFileOpened(c) ==
    /\ probe.op = "storage"
    /\ fs.calls[c].pc = "open"
    /\ IF fs.tmp = 0
       THEN fs' = [fs EXCEPT !.inodes = Append(@, << >>),
                             !.tmp = Len(fs.inodes) + 1,
                             !.calls[c].fd = Len(fs.inodes) + 1,
                             !.calls[c].pc = "write"]
       ELSE fs' = [fs EXCEPT !.inodes[fs.tmp] = << >>,
                             !.calls[c].fd = fs.tmp,
                             !.calls[c].pc = "write"]
    /\ UNCHANGED <<UnitIdle, probe>>

\* writeFile writes the text through its descriptor and closes it
TempFileWritten(c) ==
    /\ probe.op = "storage"
    /\ fs.calls[c].pc = "write"
    /\ fs' = [fs EXCEPT !.inodes[fs.calls[c].fd] =
                            WriteAt0(@, JSONstringify(fs.calls[c].arg)),
                        !.calls[c].pc = "rename"]
    /\ UNCHANGED <<UnitIdle, probe>>

\* rename(tempPath, storePath): ENOENT when the temporary file is gone
TempFileRenamed(c) ==
    /\ probe.op = "storage"
    /\ fs.calls[c].pc = "rename"
    /\ IF fs.tmp = 0
       THEN fs' = [fs EXCEPT !.calls[c].pc = "rejected"]
       ELSE fs' = [fs EXCEPT !.store = fs.tmp, !.tmp = 0, !.calls[c].pc = "resolved"]
    /\ UNCHANGED <<UnitIdle, probe>>

\* loadStore of a third command (there is no legacy file)
LoadStoreCalled ==
    /\ probe.op = "storage"
    /\ probe.output = << >>
    /\ LET current == ReadStoreFile(fs, fs.store)
       IN  probe' = [probe EXCEPT !.output =
              << [accounts |-> loadStore(Files(current.defined, FALSE, << >>),
                                         current.accounts).accounts,
                  calls |-> [c \in Callers |-> fs.calls[c].pc]] >>]
    /\ UNCHANGED <<UnitIdle, fs>>

\* the accounts of the store the next upsertAccount call is given
Upserted ==
    IF probe.output = << >> THEN probe.input[1]
    ELSE probe.output[Len(probe.output)].accounts

\* upsertAccount is called with the store the call before returned; Date.now()
\* has advanced by one
UpsertAccountCalled ==
    /\ probe.op = "upsertAccount"
    /\ Len(probe.output) < MaxUpserts
    /\ \E partial \in Partials :
          probe' = [probe EXCEPT !.output =
              Append(@, [partial |-> partial,
                         before |-> Upserted,
                         accounts |-> upsertAccount(Upserted, partial,
                                                    now + Len(probe.output))])]
    /\ UNCHANGED <<UnitIdle, fs>>

NextUnit ==
    \/ EnsureProjectIdCalled
    \/ ParseQuotaResponseCalled
    \/ ParseUserQuotaResponseCalled
    \/ \E c \in Callers : \E accounts \in SaveArgs(c) : SaveStoreCalled(c, accounts)
    \/ \E c \in Callers : TempFileOpened(c)
    \/ \E c \in Callers : TempFileWritten(c)
    \/ \E c \in Callers : TempFileRenamed(c)
    \/ LoadStoreCalled
    \/ UpsertAccountCalled

SpecUnit == InitUnit /\ [][NextUnit]_vars

-----------------------------------------------------------------------------
(* Vocabulary of the properties *)

CallsOf(t, kind) == SelectSeq(t.calls, LAMBDA c : c.kind = kind)

\* an HTTP answer with a status (the fetch itself did not fail)
Http(answer) == answer.net = "none"
Http2xx(answer) == Http(answer) /\ answer.status \in 200..299
HttpRetryable(answer) == Http(answer) /\ answer.status \notin 200..299 /\ answer.status # 403

\* the entries of a result list that belong to task t
EntriesOf(list, t) ==
    { k \in DOMAIN list : list[k].email = t.account.email /\ list[k].identity = t.identity }

\* the quota a response with the sample entries stands for, whatever its shape
SampleQuota ==
    << [model |-> << "gemini", "-x" >>, remainingPercent |-> 75, resetTime |-> SampleReset],
       [model |-> << "Claude", "-y" >>, remainingPercent |-> 0, resetTime |-> EmptyStr] >>

\* the models a 2xx body means for an identity
ExpectedModels(identity, body) ==
    IF identity = "antigravity" /\ body = ModelsBody THEN SampleQuota
    ELSE IF identity = "gemini-cli" /\ body = BucketsBody THEN SampleQuota
    ELSE << >>

\* the cached token of the task's credential is present and outlives the margin
CacheFresh(t) ==
    LET c == IdentityOf(t.account, t.identity)
    IN  /\ c.cachedAccessToken # Undef /\ c.cachedAccessToken # EmptyStr
        /\ c.cachedExpiresAt > now + 300

-----------------------------------------------------------------------------
(* C1 - C10 *)

\* C1: a step that settles or otherwise changes one task leaves every other task
\* as it was, and when the wait of runStatus ends it ends by returning, with
\* every task fulfilled and its own result among the reports and errors: a task's
\* failure neither rejects the run nor touches another task's outcome.
C1_IndependentFailureDomains ==
    [][ /\ \A i \in DOMAIN tasks : \A j \in DOMAIN tasks :
              (DOMAIN tasks' = DOMAIN tasks /\ i # j /\ tasks'[i] # tasks[i])
                  => tasks'[j] = tasks[j]
        /\ (runPc = "awaiting" /\ runPc' # "awaiting") =>
              /\ runPc' = "returned"
              /\ \A j \in DOMAIN tasks :
                    /\ tasks[j].pc = "done"
                    /\ \/ \E k \in DOMAIN reports' : reports'[k] = tasks[j].result
                       \/ \E k \in DOMAIN errors' : errors'[k] = tasks[j].result
      ]_vars

\* a run returned both a report and an error
C1_Witness ==
    /\ runPc = "returned"
    /\ \E i \in DOMAIN tasks : \E j \in DOMAIN tasks :
          /\ tasks[i].result.kind = "error" /\ tasks[j].result.kind = "report"
          /\ Len(CallsOf(tasks[j], "quota")) = 2
    /\ Len(reports) >= 1 /\ Len(errors) >= 1

\* C2: when runStatus has returned, every (account, identity) pair of the loaded
\* store that has a non-empty refresh token and passes both filters has exactly
\* one entry, in reports or in errors and not in both; every other pair has
\* none; so the two lists together have as many entries as there are such pairs.
C2_OneEntryPerPair ==
    runPc = "returned" =>
        LET Eligible(k, identity) ==
                /\ opts.accountFilter \in {Undef, EmptyStr, store[k].email}
                /\ opts.identityFilter \in {"", identity}
                /\ IdentityOf(store[k], identity).present
                /\ IdentityOf(store[k], identity).refreshToken \notin {Undef, EmptyStr}
            In(list, k, identity) ==
                Cardinality({ n \in DOMAIN list :
                    list[n].email = store[k].email /\ list[n].identity = identity })
            pairs == { p \in (DOMAIN store) \X QuotaIdentity : Eligible(p[1], p[2]) }
        IN  /\ \A k \in DOMAIN store : \A identity \in QuotaIdentity :
                  In(reports, k, identity) + In(errors, k, identity)
                      = IF Eligible(k, identity) THEN 1 ELSE 0
            /\ Len(reports) + Len(errors) = Cardinality(pairs)
            /\ \A n \in DOMAIN reports : reports[n].kind = "report"
            /\ \A n \in DOMAIN errors : errors[n].kind = "error"

\* a run over an account with an empty refresh token for one identity returned
\* one entry for the other identity
C2_Witness ==
    /\ runPc = "returned"
    /\ \E k \in DOMAIN store :
          /\ store[k].geminiCli.present /\ store[k].geminiCli.refreshToken = EmptyStr
          /\ store[k].antigravity.refreshToken # Undef
    /\ Len(reports) + Len(errors) = 1

\* C3: a quota call answered 403 is the last call of its task, whatever the
\* attempt and the identity: the task is settled with an error that has
\* isForbidden = true, and that error is what runStatus returns for the task.
C3_ForbiddenFailsFast ==
    \A i \in DOMAIN tasks : \A k \in DOMAIN tasks[i].calls :
        LET t == tasks[i]
            c == t.calls[k]
        IN  (c.kind = "quota" /\ Http(c.answer) /\ c.answer.status = 403) =>
                /\ k = Len(t.calls)
                /\ t.pc = "done"
                /\ t.result.kind = "error"
                /\ t.result.isForbidden
                /\ runPc = "returned" =>
                      \E n \in EntriesOf(errors, t) :
                          errors[n].isForbidden /\ EntriesOf(reports, t) = {}

\* both identities got a 403, one on its first attempt (one quota call in all),
\* the other on its second
C3_Witness ==
    /\ runPc = "returned"
    /\ \E i \in DOMAIN tasks : \E j \in DOMAIN tasks :
          /\ tasks[i].identity = "antigravity" /\ tasks[j].identity = "gemini-cli"
          /\ Len(CallsOf(tasks[i], "quota")) = 1
          /\ tasks[i].calls[Len(tasks[i].calls)].answer.status = 403
          /\ Len(CallsOf(tasks[j], "quota")) = 2
          /\ tasks[j].calls[Len(tasks[j].calls)].answer.status = 403
          /\ tasks[i].result.isForbidden /\ tasks[j].result.isForbidden

\* C4: no task makes more than 3 quota calls; a task whose quota calls were all
\* answered with a non-2xx status other than 403 is settled exactly when there
\* are 3 of them, with an error that has isForbidden = false and needsRelogin =
\* false, which is the error runStatus returns for it.
C4_RetryBudgetExhausted ==
    \A i \in DOMAIN tasks :
        LET t == tasks[i]
            q == CallsOf(t, "quota")
        IN  /\ Len(q) <= 3
            /\ (q # << >> /\ \A k \in DOMAIN q : HttpRetryable(q[k].answer)) =>
                  /\ t.pc = "done" <=> Len(q) = 3
                  /\ t.pc # "done" => t.pc = "delay"
                  /\ t.pc = "done" =>
                        /\ t.result.kind = "error"
                        /\ ~t.result.isForbidden /\ ~t.result.needsRelogin
                        /\ runPc = "returned" =>
                              \E n \in EntriesOf(errors, t) :
                                  ~errors[n].isForbidden /\ ~errors[n].needsRelogin

\* a task got 500 three times and the run returned its error
C4_Witness ==
    /\ runPc = "returned"
    /\ \E i \in DOMAIN tasks :
          LET q == CallsOf(tasks[i], "quota")
          IN  /\ Len(q) = 3
              /\ \A k \in DOMAIN q : q[k].answer.status = 500 /\ Http(q[k].answer)
              /\ EntriesOf(errors, tasks[i]) # {}

\* C5: when quota call number n of a task is answered 2xx and the n - 1 before
\* it were answered with a non-2xx status other than 403, the task is fulfilled
\* with a report after exactly n quota calls (n <= 3), all of them sent to the
\* one endpoint of its identity, and the report's models are those of the 2xx
\* body.
C5_RetryThenSuccess ==
    \A i \in DOMAIN tasks :
        LET t == tasks[i]
            q == CallsOf(t, "quota")
        IN  \A n \in DOMAIN q :
                (Http2xx(q[n].answer) /\ \A k \in 1..(n - 1) : HttpRetryable(q[k].answer)) =>
                    /\ Len(q) = n /\ n <= 3
                    /\ \A k \in DOMAIN q :
                          q[k].url = IF t.identity = "antigravity"
                                     THEN "https://cloudcode-pa.googleapis.com/v1internal:fetchAvailableModels"
                                     ELSE "https://cloudcode-pa.googleapis.com/v1internal:retrieveUserQuota"
                    /\ t.pc = "done"
                    /\ t.result.kind = "report"
                    /\ t.result.models = ExpectedModels(t.identity, q[n].answer.body)

\* a gemini-cli task got 500, 500 and then the buckets, an antigravity task got
\* its models at once
C5_Witness ==
    \E i \in DOMAIN tasks : \E j \in DOMAIN tasks :
        LET q == CallsOf(tasks[i], "quota")
        IN  /\ tasks[i].identity = "gemini-cli" /\ Len(q) = 3
            /\ q[1].answer.status = 500 /\ q[2].answer.status = 500
            /\ q[3].answer.status = 200 /\ q[3].answer.body = BucketsBody
            /\ tasks[i].result.models = SampleQuota
            /\ tasks[j].identity = "antigravity"
            /\ Len(CallsOf(tasks[j], "quota")) = 1
            /\ tasks[j].result.models = SampleQuota

\* the first n quota calls of task t were all answered with HTTP status
Answered500(t, n) ==
    LET q == CallsOf(t, "quota")
    IN  Len(q) >= n /\ \A k \in 1..n : Http(q[k].answer) /\ q[k].answer.status = 500

\* C6, as stated: a quota endpoint that answers 500 three times (and would
\* answer 200 to a fourth call) gets exactly 3 calls and the fetch succeeds.
C6_AsStated ==
    \A i \in DOMAIN tasks :
        (Answered500(tasks[i], 3) /\ tasks[i].pc = "done") =>
            /\ Len(CallsOf(tasks[i], "quota")) = 3
            /\ tasks[i].result.kind = "report"

\* C6, amended: a quota endpoint that answers 500, 500 and then 200 gets exactly
\* 3 calls and the task is fulfilled with the models of the 200 body; one that
\* answers 500 three times gets exactly 3 calls too, and the task is settled
\* with an error: a fourth call is never made.
C6_ThirdAttemptIsLast ==
    \A i \in DOMAIN tasks :
        LET t == tasks[i]
            q == CallsOf(t, "quota")
        IN  /\ (Answered500(t, 2) /\ Len(q) >= 3 /\ Http(q[3].answer)
                    /\ q[3].answer.status = 200) =>
                  /\ Len(q) = 3
                  /\ t.pc = "done" /\ t.result.kind = "report"
                  /\ t.result.models = ExpectedModels(t.identity, q[3].answer.body)
            /\ Answered500(t, 3) =>
                  /\ Len(q) = 3
                  /\ t.pc = "done" /\ t.result.kind = "error"

\* an antigravity task got 500, 500 and then its models
C6_Witness ==
    \E i \in DOMAIN tasks :
        LET q == CallsOf(tasks[i], "quota")
        IN  /\ tasks[i].identity = "antigravity"
            /\ Answered500(tasks[i], 2) /\ Len(q) = 3
            /\ q[3].answer.status = 200 /\ q[3].answer.body = ModelsBody
            /\ tasks[i].result.kind = "report"
            /\ tasks[i].result.models = SampleQuota

\* C7: a task whose credential has a non-empty cached access token that expires
\* later than now + 300 never calls the token endpoint, and every request it
\* sends (project discovery, quota) carries that cached token.
C7_FreshCacheSkipsRefresh ==
    \A i \in DOMAIN tasks :
        CacheFresh(tasks[i]) =>
            \A k \in DOMAIN tasks[i].calls :
                /\ tasks[i].calls[k].kind # "token"
                /\ tasks[i].calls[k].url # "https://oauth2.googleapis.com/token"
                /\ tasks[i].calls[k].auth =
                       IdentityOf(tasks[i].account, tasks[i].identity).cachedAccessToken

\* a task with a fresh cached token discovered its project and got its quota
C7_Witness ==
    \E i \in DOMAIN tasks :
        /\ CacheFresh(tasks[i])
        /\ tasks[i].pc = "done" /\ tasks[i].result.kind = "report"
        /\ CallsOf(tasks[i], "project") # << >>
        /\ CallsOf(tasks[i], "quota") # << >>

\* C8: a task whose credential has no cached access token, or one that expires
\* at or before now + 300, has made exactly one call to the token endpoint, in
\* every state from its start on: while the call is pending, after it failed
\* and after it succeeded.
C8_StaleCacheRefreshesOnce ==
    \A i \in DOMAIN tasks :
        LET c == IdentityOf(tasks[i].account, tasks[i].identity)
        IN  (c.cachedAccessToken \in {Undef, EmptyStr} \/ c.cachedExpiresAt <= now + 300) =>
                /\ Len(CallsOf(tasks[i], "token")) = 1
                /\ tasks[i].calls[1].kind = "token"
                /\ tasks[i].calls[1].auth = c.refreshToken

\* a task whose cached token expires exactly at now + 300 refreshed and went on
C8_Witness ==
    \E i \in DOMAIN tasks :
        LET c == IdentityOf(tasks[i].account, tasks[i].identity)
        IN  /\ c.cachedAccessToken # Undef /\ c.cachedExpiresAt = now + 300
            /\ Http2xx(tasks[i].calls[1].answer)
            /\ tasks[i].pc = "done" /\ tasks[i].result.kind = "report"

\* C9: a token call answered with a non-2xx response whose body has
\* error = invalid_grant is the only call of its task: the task is settled with
\* an error that has needsRelogin = true, which is the error runStatus returns.
C9_InvalidGrantNeedsRelogin ==
    \A i \in DOMAIN tasks : \A k \in DOMAIN tasks[i].calls :
        LET t == tasks[i]
            c == t.calls[k]
        IN  (c.kind = "token" /\ Http(c.answer) /\ ~Http2xx(c.answer)
                /\ c.answer.body.parsed /\ c.answer.body.error = << "invalid_grant" >>) =>
                /\ Len(t.calls) = 1
                /\ t.pc = "done"
                /\ t.result.kind = "error"
                /\ t.result.needsRelogin
                /\ runPc = "returned" =>
                      \E n \in EntriesOf(errors, t) : errors[n].needsRelogin

\* the run returned the error of a task whose refresh was answered invalid_grant
C9_Witness ==
    /\ runPc = "returned"
    /\ \E i \in DOMAIN tasks :
          /\ tasks[i].calls[1].kind = "token"
          /\ tasks[i].calls[1].answer.status = 400
          /\ tasks[i].calls[1].answer.body.error = << "invalid_grant" >>
          /\ \E n \in EntriesOf(errors, tasks[i]) : errors[n].needsRelogin

\* two accounts, each with both identities, none with a fresh cached token, no filter
TwoByTwo ==
    /\ Len(store) = 2
    /\ Falsy(opts.accountFilter) /\ opts.identityFilter = ""
    /\ \A k \in DOMAIN store : \A identity \in QuotaIdentity :
          LET c == IdentityOf(store[k], identity)
          IN  /\ c.present /\ ~Falsy(c.refreshToken)
              /\ (Falsy(c.cachedAccessToken) \/ c.cachedExpiresAt <= now + 300)

\* C10: with two accounts that each have both identities and no fresh cached
\* token, as soon as runStatus waits for its tasks there are 4 of them and each
\* has issued its token call, whether or not any of the calls has been answered;
\* when runStatus has returned, reports and errors together have 4 entries, one
\* per task.
C10_TokenCallsNotSerialized ==
    (TwoByTwo /\ runPc \in {"awaiting", "returned"}) =>
        /\ Len(tasks) = 4
        /\ \A i \in DOMAIN tasks :
              /\ Len(CallsOf(tasks[i], "token")) = 1
              /\ tasks[i].calls[1].auth =
                     IdentityOf(tasks[i].account, tasks[i].identity).refreshToken
        /\ \A i \in DOMAIN tasks : \A j \in DOMAIN tasks :
              (i # j) => <<tasks[i].account.email, tasks[i].identity>>
                           # <<tasks[j].account.email, tasks[j].identity>>
        /\ runPc = "returned" =>
              /\ Len(reports) + Len(errors) = 4
              /\ \A i \in DOMAIN tasks :
                    Cardinality(EntriesOf(reports, tasks[i]))
                        + Cardinality(EntriesOf(errors, tasks[i])) = 1

\* all 4 token calls are in flight and none has been answered
C10_Witness ==
    /\ TwoByTwo
    /\ runPc = "awaiting"
    /\ Len(tasks) = 4
    /\ \A i \in DOMAIN tasks :
          /\ tasks[i].pc = "token"
          /\ tasks[i].calls[1].answer = Pending

-----------------------------------------------------------------------------
(* C11 - C20 *)

\* task t called the token endpoint (it did not use a cached token)
Refreshing(t) == CallsOf(t, "token") # << >>

\* the token endpoint gave task t an access token
Refreshed(t) ==
    /\ Refreshing(t)
    /\ Http2xx(t.calls[1].answer)
    /\ t.calls[1].answer.body.parsed
    /\ t.calls[1].answer.body.access_token \notin {Undef, EmptyStr}

\* C11: loadStore is called once (runStatus enters its wait for loadStore from
\* its start only and never starts again); saveStore is called at most once, in
\* the step in which the wait for the tasks ends, when every task is settled and
\* at least one of them called the token endpoint; when no task called the token
\* endpoint, the run returns without a saveStore call.
C11_LoadOnceSaveAfterJoin ==
    [][ /\ (runPc' = "loading" /\ runPc # "loading") => runPc = "idle"
        /\ runPc # "idle" => runPc' # "idle"
        /\ save.state # "none" => save'.state \in {save.state, "saved", "failed"}
        /\ (save.state = "none" /\ save'.state # "none") =>
              /\ save'.state = "pending"
              /\ runPc = "awaiting" /\ runPc' = "returned"
              /\ \A i \in DOMAIN tasks : tasks[i].pc = "done" /\ tasks'[i] = tasks[i]
              /\ \E i \in DOMAIN tasks : Refreshing(tasks[i])
        /\ (runPc = "awaiting" /\ runPc' = "returned"
                /\ \A i \in DOMAIN tasks : ~Refreshing(tasks[i])) => save' = NoSave
      ]_vars

\* a run of two tasks, one on its cached token and one that refreshed, returned
\* and its one saveStore call has been made
C11_Witness ==
    /\ runPc = "returned"
    /\ save.state = "pending"
    /\ \E i \in DOMAIN tasks : \E j \in DOMAIN tasks :
          ~Refreshing(tasks[i]) /\ Refreshed(tasks[j])

\* C12, as stated: when runStatus has returned, every task that the token
\* endpoint gave a new access token has that token and its expiry in the store
\* handed to saveStore, whether the task went on to a report or to an error.
C12_AsStated ==
    runPc = "returned" =>
        \A i \in DOMAIN tasks :
            Refreshed(tasks[i]) =>
                /\ save.state # "none"
                /\ \E k \in DOMAIN save.arg :
                      /\ save.arg[k].email = tasks[i].account.email
                      /\ IdentityOf(save.arg[k], tasks[i].identity).cachedAccessToken
                             = tasks[i].calls[1].answer.body.access_token

\* C13: the step in which the saveStore call settles, with a written file or
\* with a failure, happens after runStatus has returned and changes neither the
\* reports, nor the errors, nor the exit code runCli derives from them; a
\* failed write leaves the file as it was.
C13_SaveFailureIsSilent ==
    [][ (save.state = "pending" /\ save'.state # "pending") =>
            /\ runPc = "returned" /\ runPc' = "returned"
            /\ reports' = reports
            /\ errors' = errors
            /\ runCli(runPc', reports', errors') = runCli(runPc, reports, errors)
            /\ save'.state = "failed" => disk' = disk
      ]_vars

\* the write of a run that returned a report failed
C13_Witness ==
    /\ runPc = "returned"
    /\ save.state = "failed"
    /\ reports # << >>
    /\ runCli(runPc, reports, errors) = 0

\* C14: the store handed to saveStore has the accounts of the loaded store in
\* the same places; each keeps its email and project id, each identity keeps
\* its presence, refresh token and project id, and an identity that differs at
\* all from the loaded one belongs to a task that refreshed.  The file is that
\* store after the write, and the loaded one until then.
C14_WriteBackFrame ==
    save.state # "none" =>
        /\ Len(save.arg) = Len(store)
        /\ \A k \in DOMAIN store :
              /\ save.arg[k].email = store[k].email
              /\ save.arg[k].projectId = store[k].projectId
              /\ \A identity \in QuotaIdentity :
                    LET old == IdentityOf(store[k], identity)
                        new == IdentityOf(save.arg[k], identity)
                    IN  /\ new.present = old.present
                        /\ new.refreshToken = old.refreshToken
                        /\ new.projectId = old.projectId
                        /\ new # old =>
                              \E i \in DOMAIN tasks :
                                  /\ tasks[i].account.email = store[k].email
                                  /\ tasks[i].identity = identity
                                  /\ Refreshed(tasks[i])
        /\ disk = IF save.state = "saved" THEN save.arg ELSE store

\* with the account filter on the second of two accounts, the store was written
\* back with the first account as loaded and a new cached token in the second
C14_Witness ==
    /\ save.state = "saved"
    /\ Len(store) = 2
    /\ opts.accountFilter = store[2].email
    /\ disk[1] = store[1]
    /\ disk[2].antigravity # store[2].antigravity
    /\ disk[2].antigravity.projectId = store[2].antigravity.projectId

\* C15: when runStatus has returned, no gemini-cli entry of an account comes
\* before the antigravity entry of the same account, in reports and in errors,
\* whichever of the two tasks settled first.
C15_IdentityOrderStable ==
    runPc = "returned" =>
        \A list \in {reports, errors} :
            \A m \in DOMAIN list : \A n \in DOMAIN list :
                (list[m].email = list[n].email
                    /\ list[m].identity = "antigravity"
                    /\ list[n].identity = "gemini-cli") => m < n

\* the gemini-cli task of an account is settled with a report while the
\* antigravity task of the same account, pushed before it, is still retrying
C15_Witness ==
    /\ runPc = "awaiting"
    /\ \E i \in DOMAIN tasks : \E j \in DOMAIN tasks :
          /\ tasks[i].account.email = tasks[j].account.email
          /\ tasks[i].identity = "antigravity" /\ tasks[j].identity = "gemini-cli"
          /\ tasks[j].pc = "done" /\ tasks[j].result.kind = "report"
          /\ tasks[i].pc = "delay"

\* C16, as stated: the error of a task has isForbidden = true exactly when a
\* quota call of the task was answered 403.
C16_AsStated ==
    \A i \in DOMAIN tasks :
        (tasks[i].pc = "done" /\ tasks[i].result.kind = "error") =>
            (tasks[i].result.isForbidden <=>
                \E k \in DOMAIN tasks[i].calls :
                    /\ tasks[i].calls[k].kind = "quota"
                    /\ Http(tasks[i].calls[k].answer)
                    /\ tasks[i].calls[k].answer.status = 403)

\* the token call was answered with a non-2xx status and no invalid_grant in the
\* body, or its fetch failed
TransientTokenFailure(answer) ==
    \/ answer.net = "error"
    \/ /\ Http(answer) /\ ~Http2xx(answer)
       /\ \/ ~answer.body.parsed
          \/ /\ answer.body.error # << "invalid_grant" >>
             /\ \A k \in DOMAIN answer.body.error_description :
                   answer.body.error_description[k] # "invalid_grant"

\* C17: a token call that failed transiently is the only call of its task: the
\* task is settled with an error that has needsRelogin = false, which is the
\* error runStatus returns for it.
C17_TokenRefreshNotRetried ==
    \A i \in DOMAIN tasks : \A k \in DOMAIN tasks[i].calls :
        LET t == tasks[i]
            c == t.calls[k]
        IN  (c.kind = "token" /\ TransientTokenFailure(c.answer)) =>
                /\ Len(t.calls) = 1
                /\ t.pc = "done"
                /\ t.result.kind = "error"
                /\ ~t.result.needsRelogin
                /\ runPc = "returned" =>
                      \E n \in EntriesOf(errors, t) : ~errors[n].needsRelogin

\* the run returned the errors of a task whose refresh was answered 500 and of
\* a task whose refresh failed in the network
C17_Witness ==
    /\ runPc = "returned"
    /\ \E i \in DOMAIN tasks : \E j \in DOMAIN tasks :
          /\ tasks[i].calls[1].kind = "token"
          /\ Http(tasks[i].calls[1].answer) /\ tasks[i].calls[1].answer.status = 500
          /\ tasks[j].calls[1].kind = "token"
          /\ tasks[j].calls[1].answer.net = "error"
          /\ \E n \in EntriesOf(errors, tasks[i]) : ~errors[n].needsRelogin
          /\ \E n \in EntriesOf(errors, tasks[j]) : ~errors[n].needsRelogin

\* C18, as stated: every run of runStatus eventually completes, also when the
\* remote side never responds to some call.
C18_AsStated == <>(runPc \in {"returned", "threw"})

\* the remote side stays silent on a token call
TokenCallSilent ==
    \E i \in DOMAIN tasks : tasks[i].pc = "token" /\ LastCall(tasks[i]).answer = Silent

\* the calls made through fetchWithTimeout are bounded: a run in which no token
\* call meets a silent remote side completes
OnlyTokenCallHangs == <>(runPc \in {"returned", "threw"} \/ TokenCallSilent)

\* C19: a quota call that timed out as call number n of its task is followed by
\* a retry when n < 3 (the task waits for the retry delay or has sent call
\* n + 1), and a 2xx answer to call n + 1 settles the task with a report of the
\* models of that answer; when n = 3 the task is settled with an error that has
\* isForbidden = false and needsRelogin = false, and there is no fourth call.
C19_TimeoutIsTransient ==
    \A i \in DOMAIN tasks :
        LET t == tasks[i]
            q == CallsOf(t, "quota")
        IN  \A n \in DOMAIN q :
                q[n].answer.net = "timeout" =>
                    /\ n <= 3
                    /\ n < 3 =>
                          /\ IF Len(q) = n THEN t.pc = "delay" ELSE Len(q) > n
                          /\ (Len(q) > n /\ Http2xx(q[n + 1].answer)) =>
                                /\ t.pc = "done" /\ t.result.kind = "report"
                                /\ t.result.models =
                                       ExpectedModels(t.identity, q[n + 1].answer.body)
                    /\ n = 3 =>
                          /\ Len(q) = 3
                          /\ t.pc = "done" /\ t.result.kind = "error"
                          /\ ~t.result.isForbidden /\ ~t.result.needsRelogin

\* the run returned the report of a task whose first and second quota calls
\* timed out and whose third was answered 200
C19_Witness ==
    /\ runPc = "returned"
    /\ \E i \in DOMAIN tasks :
          LET q == CallsOf(tasks[i], "quota")
          IN  /\ Len(q) = 3
              /\ q[1].answer.net = "timeout" /\ q[2].answer.net = "timeout"
              /\ Http2xx(q[3].answer)
              /\ \E n \in EntriesOf(reports, tasks[i]) : reports[n].models = SampleQuota

\* a task whose three quota calls all timed out is settled with an error
ThirdTimeoutReached ==
    \E i \in DOMAIN tasks :
        LET q == CallsOf(tasks[i], "quota")
        IN  /\ Len(q) = 3 /\ \A k \in 1..3 : q[k].answer.net = "timeout"
            /\ tasks[i].pc = "done" /\ tasks[i].result.kind = "error"

\* discovery call c got an outcome that yields no project id
DiscoveryFailed(c) == c.answer.net = "none" /\ Falsy(c.answer.body)

-----------------------------------------------------------------------------
(* C21 - C30 *)

\* ensureProjectId was applied to the probe's input and left with its outcome
Applied(op) == probe.op = op /\ probe.output # << >>
Outcome == probe.output[1]

\* a string with something other than whitespace in it
NonBlank(s) == s # Undef /\ \E k \in DOMAIN s : s[k] # " "

\* C21, as stated: with a non-blank access token, a known project id that is
\* non-empty after trimming is returned unchanged, surrounding whitespace
\* included, without a fetch; one that is whitespace only leads to discovery.
C21_AsStated ==
    (Applied("ensureProjectId") /\ NonBlank(probe.input.accessToken)
        /\ probe.input.projectId \notin {Undef, EmptyStr}) =>
        IF NonBlank(probe.input.projectId)
        THEN Outcome.kind = "return" /\ Outcome.value = probe.input.projectId
        ELSE Outcome.kind = "fetch"

\* C22: with an access token that is undefined, empty or whitespace only,
\* ensureProjectId throws a ProjectError, whatever the known project id: it
\* neither fetches nor returns a project id.
C22_BlankTokenRejected ==
    (Applied("ensureProjectId") /\ ~NonBlank(probe.input.accessToken)) =>
        /\ Outcome.kind = "throw"
        /\ Outcome.error.name = "ProjectError"
        /\ Outcome.value = Undef

\* a whitespace-only access token with a known project id was rejected
C22_Witness ==
    /\ Applied("ensureProjectId")
    /\ probe.input.accessToken = << " " >>
    /\ probe.input.projectId = << "project-1" >>
    /\ Outcome.kind = "throw"

\* C23: every task, report and error of a run belongs to an account whose
\* email equals the account filter (when one is set) and to the identity of the
\* identity filter (when one is set); every call is made by such a task, so a
\* pair the filters exclude causes no call.
C23_FiltersRestrictTasks ==
    LET Passes(email, identity) ==
            /\ opts.accountFilter \in {Undef, EmptyStr, email}
            /\ opts.identityFilter \in {"", identity}
    IN  /\ \A i \in DOMAIN tasks : Passes(tasks[i].account.email, tasks[i].identity)
        /\ \A n \in DOMAIN reports : Passes(reports[n].email, reports[n].identity)
        /\ \A n \in DOMAIN errors : Passes(errors[n].email, errors[n].identity)
        /\ runPc = "returned" =>
              Len(reports) + Len(errors) =
                  Cardinality({ x \in (DOMAIN store) \X QuotaIdentity :
                      /\ Passes(store[x[1]].email, x[2])
                      /\ IdentityOf(store[x[1]], x[2]).refreshToken \notin {Undef, EmptyStr} })

\* of two accounts with both identities, only the gemini-cli identity of the
\* second account was asked for, and the run returned its one entry
C23_Witness ==
    /\ runPc = "returned"
    /\ Len(store) = 2
    /\ opts.accountFilter = store[2].email
    /\ opts.identityFilter = "gemini-cli"
    /\ Len(tasks) = 1
    /\ Len(reports) + Len(errors) = 1

\* the status command has ended
CommandEnded == runPc \in {"returned", "threw"}

ExitCodeOfRun ==
    /\ runPc = "returned" =>
          runCli(runPc, reports, errors) =
              IF reports = << >> /\ errors # << >> THEN 2 ELSE 0
    /\ runPc = "threw" =>
          /\ runCli(runPc, reports, errors) = 2
          /\ reports = << >> /\ errors = << >>

\* runStatus threw: the migration of a legacy store could not be written
RunStatusThrew == runPc = "threw" /\ files.legacy /\ ~files.current

\* both parsers were applied to the probe's entries
Parsed == probe.op = "parse" /\ Len(probe.output) = 2
Models == CHOOSE v \in ParsedBy("parseQuotaResponse") : TRUE
Buckets == CHOOSE v \in ParsedBy("parseUserQuotaResponse") : TRUE

\* the names of the entries of a parser's output
Names(quota) == { quota[k].model : k \in DOMAIN quota }

\* C25: a model named m is kept by the parser of the models object exactly when
\* a bucket with modelId m is kept by the parser of the buckets, and that is
\* exactly when m has one of gemini, claude, image, imagen in it, in any case;
\* of gemini-x, claude-y, imagen-z and unrelated-w the first three are kept.
C25_SameFilter ==
    Parsed =>
        /\ \A k \in DOMAIN probe.input :
              LET m == probe.input[k].name
                  marked == \E c \in DOMAIN m :
                               m[c] \in {"gemini", "Gemini", "GEMINI", "claude", "Claude",
                                         "image", "IMAGE", "imagen"}
              IN  /\ m \in Names(Models) <=> marked
                  /\ m \in Names(Buckets) <=> marked
        /\ probe.input = FourEntries =>
              /\ Len(Models) = 3 /\ Len(Buckets) = 3
              /\ Names(Models) = Names(Buckets)
              /\ << "unrelated", "-w" >> \notin Names(Models)

\* both parsers were applied to the four models and kept three
C25_Witness ==
    /\ Parsed
    /\ probe.input = FourEntries
    /\ Len(Models) = 3 /\ Len(Buckets) = 3

\* the entries that pass the filter, in the order of the response
Passing(entries) ==
    SelectSeq(entries, LAMBDA e : e.name # Undef /\ MODEL_FILTER_PATTERN(e.name))

\* C26: each parser returns one entry for every model (bucket) that passes the
\* filter, in the order of the response; a model with no quotaInfo is returned
\* with remainingPercent 0 and resetTime "", a bucket without remainingFraction
\* with remainingPercent 0 and one without resetTime with resetTime "".
C26_PartialDataKept ==
    /\ (probe.op = "parse" /\ ParsedBy("parseQuotaResponse") # {}) =>
          LET kept == Passing(probe.input)
          IN  /\ Len(Models) = Len(kept)
              /\ \A k \in DOMAIN kept :
                    /\ Models[k].model = kept[k].name
                    /\ ~kept[k].hasQuotaInfo =>
                          Models[k].remainingPercent = 0 /\ Models[k].resetTime = EmptyStr
    /\ (probe.op = "parse" /\ ParsedBy("parseUserQuotaResponse") # {}) =>
          LET kept == Passing(probe.input)
          IN  /\ Len(Buckets) = Len(kept)
              /\ \A k \in DOMAIN kept :
                    /\ Buckets[k].model = kept[k].name
                    /\ ~kept[k].remainingFraction.def => Buckets[k].remainingPercent = 0
                    /\ kept[k].resetTime = Undef => Buckets[k].resetTime = EmptyStr

\* two models passed the filter, the second with no quotaInfo, and both parsers
\* returned two entries, the second with 0 and ""
C26_Witness ==
    /\ Parsed
    /\ Len(probe.input) = 2
    /\ Len(Passing(probe.input)) = 2
    /\ ~probe.input[2].hasQuotaInfo
    /\ ~probe.input[2].remainingFraction.def /\ probe.input[2].resetTime = Undef
    /\ Len(Models) = 2 /\ Len(Buckets) = 2
    /\ Models[2].remainingPercent = 0 /\ Models[2].resetTime = EmptyStr
    /\ Buckets[2].remainingPercent = 0 /\ Buckets[2].resetTime = EmptyStr

\* C27, as stated: for every fraction f = num / FracDen in [0,1] of a model or
\* of a bucket, the remainingPercent returned is floor(f * 100), in 0..100.
C27_AsStated ==
    \A fn \in {"parseQuotaResponse", "parseUserQuotaResponse"} :
        (probe.op = "parse" /\ probe.input \in FractionEntries) =>
            \A quota \in ParsedBy(fn) :
                /\ Len(quota) = 1
                /\ quota[1].remainingPercent =
                       (probe.input[1].remainingFraction.num * 100) \div FracDen
                /\ quota[1].remainingPercent \in 0..100

\* what the parsers return: a percentage in 0..100 that is floor(f * 100) or
\* one less
PercentWithinOne ==
    \A fn \in {"parseQuotaResponse", "parseUserQuotaResponse"} :
        (probe.op = "parse" /\ probe.input \in FractionEntries) =>
            \A quota \in ParsedBy(fn) :
                LET exact == (probe.input[1].remainingFraction.num * 100) \div FracDen
                IN  /\ quota[1].remainingPercent \in {exact - 1, exact}
                    /\ quota[1].remainingPercent \in 0..100

\* the access tokens a store holds
AccessTokensIn(accounts) ==
    { IdentityOf(accounts[k], identity).cachedAccessToken :
        k \in DOMAIN accounts, identity \in QuotaIdentity } \ {Undef, EmptyStr}

\* C28, as stated: a store file that held refresh tokens and project ids only
\* holds no access token after a status run has written it.
C28_AsStated ==
    (AccessTokensIn(store) = {} /\ save.state = "saved") => AccessTokensIn(disk) = {}

\* a run that refreshed wrote the new access token of every refreshed task that
\* reported into the store file
AccessTokenWritten ==
    /\ save.state = "saved"
    /\ AccessTokensIn(store) = {}
    /\ \E i \in DOMAIN tasks :
          /\ Refreshed(tasks[i])
          /\ tasks[i].calls[1].answer.body.access_token \in AccessTokensIn(disk)

\* the store a reader finds in the store file: none when the file does not
\* exist, unreadable when it is not the text of a version 1 store
StoreFile ==
    IF fs.store = 0 THEN [exists |-> FALSE, readable |-> FALSE, accounts |-> << >>]
    ELSE [exists |-> TRUE,
          readable |-> ReadStoreFile(fs, fs.store).defined,
          accounts |-> ReadStoreFile(fs, fs.store).accounts]

\* the stores that were in the file at the start or have been handed to saveStore
Written ==
    { fs.calls[c].arg : c \in { c \in Callers : fs.calls[c].pc # "idle" } }

\* C29, as stated: the store file is at every moment what it was at the start
\* (a complete store, or not there) or a complete store handed to a saveStore
\* call, also while two saveStore calls overlap, and no saveStore call fails.
C29_AsStated ==
    probe.op = "storage" =>
        /\ StoreFile.exists => StoreFile.readable
        /\ StoreFile.exists =>
              \/ StoreFile.accounts \in Written
              \/ fs.store = 1 /\ fs.inodes[1] = JSONstringify(StoreFile.accounts)
        /\ \A c \in Callers : fs.calls[c].pc # "rejected"

\* a saveStore call that no other overlaps replaces the store file in one step
AloneIsAtomic ==
    (probe.op = "storage" /\ \E c \in Callers : fs.calls[c].pc = "idle") =>
        /\ StoreFile.exists => StoreFile.readable
        /\ \A c \in Callers : fs.calls[c].pc # "rejected"

\* the store file is unreadable while a call is writing, and a call was rejected
TornFile == probe.op = "storage" /\ StoreFile.exists /\ ~StoreFile.readable
Rejected == probe.op = "storage" /\ \E c \in Callers : fs.calls[c].pc = "rejected"

\* C30: loadStore after a saveStore call that has resolved, with no other call
\* under way, returns the accounts that were saved.
C30_RoundTrip ==
    (Applied("storage")
        /\ \E c \in Callers :
              /\ Outcome.calls[c] = "resolved"
              /\ \A d \in Callers \ {c} : Outcome.calls[d] = "idle"
              /\ fs.calls[c].pc = "resolved"
              /\ \A d \in Callers \ {c} : fs.calls[d].pc = "idle") =>
        \E c \in Callers :
            /\ Outcome.calls[c] = "resolved"
            /\ Outcome.accounts = fs.calls[c].arg

\* a store with an empty refresh token and a cached access token was saved over
\* another store and loaded again
C30_Witness ==
    /\ Applied("storage")
    /\ fs.store > 1
    /\ Outcome.calls = [c \in Callers |-> IF c = "status" THEN "resolved" ELSE "idle"]
    /\ fs.calls["login"].pc = "idle"
    /\ Len(Outcome.accounts) = 1
    /\ Outcome.accounts = fs.calls["status"].arg
    /\ Outcome.accounts[1].antigravity.refreshToken = EmptyStr
    /\ Outcome.accounts[1].geminiCli.present

-----------------------------------------------------------------------------
(* C31 - C40 *)

\* C36, as stated: no error entry, of a settled task or of the result of the
\* run, has needsRelogin and isForbidden both true.
C36_AsStated ==
    /\ \A i \in DOMAIN tasks :
          tasks[i].result.kind = "error" =>
              ~(tasks[i].result.needsRelogin /\ tasks[i].result.isForbidden)
    /\ \A n \in DOMAIN errors : ~(errors[n].needsRelogin /\ errors[n].isForbidden)

\* what the classification does give: the two flags are both true only for a
\* failure of the token call that was answered 403 with invalid_grant
BothFlagsOnlyFromToken ==
    \A i \in DOMAIN tasks :
        (tasks[i].result.kind = "error"
            /\ tasks[i].result.needsRelogin /\ tasks[i].result.isForbidden) =>
            /\ Len(tasks[i].calls) = 1
            /\ tasks[i].calls[1].kind = "token"
            /\ tasks[i].calls[1].answer.status = 403
            /\ tasks[i].calls[1].answer.body.error = << "invalid_grant" >>

\* the stages of a task in the order of fetchIdentityQuota
StageOf(kind) == CASE kind = "token" -> 1 [] kind = "project" -> 2 [] kind = "quota" -> 3

\* the access token a task works with: the one its token call was given, or
\* else the cached one of its credential
TokenOf(t) ==
    IF t.calls # << >> /\ t.calls[1].kind = "token"
    THEN t.calls[1].answer.body.access_token
    ELSE IdentityOf(t.account, t.identity).cachedAccessToken

\* the project id its resolver returned: the one discovered by its last
\* discovery call or the fallback, or else the stored one
StoredProjectOf(t) ==
    IF IdentityOf(t.account, t.identity).projectId # Undef
    THEN IdentityOf(t.account, t.identity).projectId ELSE t.account.projectId

ProjectOf(t) ==
    LET p == CallsOf(t, "project")
    IN  IF p = << >> THEN Trim(StoredProjectOf(t))
        ELSE IF DiscoveryFailed(p[Len(p)]) THEN DEFAULT_PROJECT_ID
        ELSE p[Len(p)].answer.body

\* C33: the calls of a task come in the order token, project, quota; there is
\* at most one token call and any call after it was made after it had given an
\* access token; every project and quota call carries that one access token (or
\* the cached one when there was no token call); every quota call carries the
\* project id the resolver returned; a task that ended with an error after a
\* failed token call made no other call.
C33_StagesInOrder ==
    \A i \in DOMAIN tasks :
        LET t == tasks[i]
            c == t.calls
        IN  /\ \A j, k \in DOMAIN c : j < k => StageOf(c[j].kind) <= StageOf(c[k].kind)
            /\ Len(CallsOf(t, "token")) <= 1
            /\ (Len(c) >= 2 /\ c[1].kind = "token") => Refreshed(t)
            /\ (Refreshing(t) /\ ~Refreshed(t) /\ t.pc = "done") =>
                  Len(c) = 1 /\ t.result.kind = "error"
            /\ \A k \in DOMAIN c :
                  /\ c[k].kind \in {"project", "quota"} =>
                        c[k].auth = TokenOf(t) /\ ~Falsy(c[k].auth)
                  /\ c[k].kind = "quota" =>
                        /\ c[k].body = ProjectOf(t)
                        /\ \A j \in DOMAIN c : c[j].kind = "project" =>
                              j < k /\ c[j].answer.net = "none"

\* a task refreshed its token, discovered its project and fetched its quota
\* with the token and the project it was given
C33_Witness ==
    \E i \in DOMAIN tasks :
        LET c == tasks[i].calls
        IN  /\ Len(c) = 3
            /\ c[1].kind = "token" /\ c[2].kind = "project" /\ c[3].kind = "quota"
            /\ c[2].auth = c[1].answer.body.access_token
            /\ c[3].auth = c[1].answer.body.access_token
            /\ c[3].body = c[2].answer.body
            /\ tasks[i].pc = "done" /\ tasks[i].result.kind = "report"

\* discovery call c was given a project id
Discovered(c) == c.answer.net = "none" /\ ~Falsy(c.answer.body)

Malformed(body, identity) ==
    \/ body.text \in {"empty", "garbage"}
    \/ body.text = "json" /\ identity = "antigravity" /\ ~body.hasModels
    \/ body.text = "json" /\ identity = "gemini-cli" /\ ~body.hasBuckets

\* C34: a quota call answered 2xx with a malformed body is the last call of its
\* task, and the task is settled at once with a report of zero models: there is
\* no error, no retry delay and no further call.
C34_MalformedIsEmptyReport ==
    \A i \in DOMAIN tasks :
        \A k \in DOMAIN tasks[i].calls :
            LET c == tasks[i].calls[k]
            IN  (c.kind = "quota" /\ Http2xx(c.answer)
                    /\ Malformed(c.answer.body, tasks[i].identity)) =>
                    /\ k = Len(tasks[i].calls)
                    /\ tasks[i].pc = "done"
                    /\ tasks[i].result.kind = "report"
                    /\ tasks[i].result.models = << >>
                    /\ \A n \in DOMAIN errors :
                          ~(errors[n].email = tasks[i].account.email
                              /\ errors[n].identity = tasks[i].identity)

\* a run returned a report with zero models for a task whose quota call was
\* answered 200 with a body that is not JSON
C34_Witness ==
    /\ runPc = "returned"
    /\ \E i \in DOMAIN tasks :
          /\ LastCall(tasks[i]).kind = "quota"
          /\ LastCall(tasks[i]).answer.status = 200
          /\ LastCall(tasks[i]).answer.body = GarbageBody
          /\ \E n \in EntriesOf(reports, tasks[i]) : reports[n].models = << >>

\* the secrets of the credential of a pair: its refresh token, its cached
\* access token and the access token its refresh token is exchanged for
SecretsOf(account, identity) ==
    LET own == IdentityOf(account, identity)
    IN  { own.refreshToken, own.cachedAccessToken, AccessTokenFor(own.refreshToken) }
            \ {Undef, EmptyStr, AccessTokenFor(Undef), AccessTokenFor(EmptyStr)}

\* the secrets of every other pair of the loaded store
SecretsOfOthers(account, identity) ==
    UNION { SecretsOf(store[k], other) :
              k \in DOMAIN store, other \in QuotaIdentity } \
        SecretsOf(account, identity)

\* C37: the token call of a task carries the refresh token of its own pair,
\* its project and quota calls carry the cached access token of its pair or the
\* access token that refresh token was exchanged for, and no call carries a
\* secret of another pair; in the store handed to saveStore the cached access
\* token of a pair is the one it had or the one its own refresh token gave.
C37_TokensStayWithTheirPair ==
    /\ \A i \in DOMAIN tasks :
          LET t == tasks[i]
              own == IdentityOf(t.account, t.identity)
          IN  \A k \in DOMAIN t.calls :
                  LET c == t.calls[k]
                  IN  /\ c.kind = "token" => c.auth = own.refreshToken
                      /\ c.kind \in {"project", "quota"} =>
                            c.auth \in {own.cachedAccessToken, AccessTokenFor(own.refreshToken)}
                      /\ c.auth \notin SecretsOfOthers(t.account, t.identity)
    /\ save.state # "none" =>
          \A k \in DOMAIN save.arg : \A identity \in QuotaIdentity :
              LET old == IdentityOf(store[k], identity)
                  new == IdentityOf(save.arg[k], identity)
              IN  /\ new.cachedAccessToken \in
                        {old.cachedAccessToken, AccessTokenFor(old.refreshToken)}
                  /\ new.cachedAccessToken \notin SecretsOfOthers(store[k], identity)

\* two tasks refreshed, the second settled first, and each credential of the
\* written store has the access token of its own refresh token
C37_Witness ==
    /\ save.state = "saved"
    /\ Len(tasks) = 2
    /\ \A i \in DOMAIN tasks :
          /\ Refreshed(tasks[i])
          /\ \E k \in DOMAIN disk :
                /\ disk[k].email = tasks[i].account.email
                /\ IdentityOf(disk[k], tasks[i].identity).cachedAccessToken =
                       AccessTokenFor(IdentityOf(tasks[i].account, tasks[i].identity).refreshToken)
    /\ tasks[1].calls[1].answer # Pending
    /\ Len(tasks[2].calls) >= 2

\* C32, as stated: when runStatus has returned, the saveStore call of its
\* write-back has settled.
C32_AsStated == runPc = "returned" => save.state # "pending"

\* C31, as stated: the step in which the write-back replaces the store file
\* keeps every account the file had just before, with the refresh token of each
\* of its identities.
C31_AsStated ==
    [][ (save.state = "pending" /\ save'.state = "saved") =>
            \A k \in DOMAIN disk : \E j \in DOMAIN disk' :
                /\ disk'[j].email = disk[k].email
                /\ \A identity \in QuotaIdentity :
                      IdentityOf(disk[k], identity).present =>
                          IdentityOf(disk'[j], identity).refreshToken =
                              IdentityOf(disk[k], identity).refreshToken
      ]_vars

\* the write-back has replaced the store file a login had saved, and the
\* refresh token of that login is gone
LoginLost ==
    /\ save.state = "saved"
    /\ \A k \in DOMAIN disk :
          disk[k].email = EmailB =>
              disk[k].antigravity.refreshToken # NewRefreshTokenOf(EmailB, "antigravity")
    /\ \E k \in DOMAIN store : store[k].email = EmailB

\* the emails of the accounts are pairwise different
UniqueEmails(accounts) ==
    \A j, k \in DOMAIN accounts : accounts[j].email = accounts[k].email => j = k

\* the last upsertAccount call: its partial, the store it was given and the
\* store it returned
LastUpsert == probe.output[Len(probe.output)]

\* C38, as stated: after every upsertAccount call the emails are unique; a
\* call for an email the store has keeps the number of accounts, the place of
\* every account and the addedAt of the account; a call for a new email
\* appends one account and keeps the others.
C38_AsStated ==
    Applied("upsertAccount") =>
        LET before == LastUpsert.before
            after == LastUpsert.accounts
            partial == LastUpsert.partial
            k == FindIndex(before, partial.email)
        IN  /\ UniqueEmails(after)
            /\ k # 0 =>
                  /\ Len(after) = Len(before)
                  /\ \A j \in DOMAIN before : after[j].email = before[j].email
                  /\ after[k].addedAt = before[k].addedAt
            /\ k = 0 =>
                  /\ Len(after) = Len(before) + 1
                  /\ SubSeq(after, 1, Len(before)) = before
                  /\ after[Len(after)].email = partial.email

\* C38 without the addedAt of a partial that has one: the account keeps its
\* addedAt when the partial has none
UpsertKeepsOneAccountPerEmail ==
    Applied("upsertAccount") =>
        LET before == LastUpsert.before
            after == LastUpsert.accounts
            partial == LastUpsert.partial
            k == FindIndex(before, partial.email)
        IN  /\ UniqueEmails(after)
            /\ k # 0 =>
                  /\ Len(after) = Len(before)
                  /\ \A j \in DOMAIN before : after[j].email = before[j].email
                  /\ partial.addedAt = NoStamp => after[k].addedAt = before[k].addedAt
            /\ k = 0 =>
                  /\ Len(after) = Len(before) + 1
                  /\ SubSeq(after, 1, Len(before)) = before
                  /\ after[Len(after)].email = partial.email

\* C39: an upsertAccount call whose partial has one identity, for an email
\* the store has, returns the other identity of that account as it was and
\* every other account as it was.
C39_OtherIdentityKept ==
    Applied("upsertAccount") =>
        LET before == LastUpsert.before
            after == LastUpsert.accounts
            partial == LastUpsert.partial
            k == FindIndex(before, partial.email)
        IN  /\ \A j \in DOMAIN before : j # k => after[j] = before[j]
            /\ k # 0 =>
                  /\ ~partial.antigravity.present =>
                        after[k].antigravity = before[k].antigravity
                  /\ ~partial.geminiCli.present =>
                        after[k].geminiCli = before[k].geminiCli

\* after a login of each identity of the second account, one after the other,
\* the account has both new refresh tokens and the first account is as it was
C39_Witness ==
    /\ Applied("upsertAccount")
    /\ Len(probe.output) = 2
    /\ Len(probe.input[1]) = 2
    /\ probe.output[1].partial.email = EmailB
    /\ probe.output[1].partial.antigravity.present
    /\ ~probe.output[1].partial.geminiCli.present
    /\ LastUpsert.partial.email = EmailB
    /\ LastUpsert.partial.geminiCli.present
    /\ ~LastUpsert.partial.antigravity.present
    /\ LastUpsert.accounts[1] = probe.input[1][1]
    /\ LastUpsert.accounts[2].antigravity.refreshToken = NewRefreshTokenOf(EmailB, "antigravity")
    /\ LastUpsert.accounts[2].geminiCli.refreshToken = NewRefreshTokenOf(EmailB, "gemini-cli")

\* a new email was appended to a store of two accounts, then the first account
\* was upserted by a partial with no addedAt: it is in its place with the
\* addedAt it had and the updatedAt of the call
C38_Witness ==
    /\ Applied("upsertAccount")
    /\ Len(probe.output) = 2
    /\ Len(probe.input[1]) = 2
    /\ probe.output[1].partial.email = EmailC
    /\ LastUpsert.partial.email = EmailA
    /\ LastUpsert.partial.addedAt = NoStamp
    /\ LastUpsert.partial.updatedAt = NoStamp
    /\ Len(LastUpsert.accounts) = 3
    /\ LastUpsert.accounts[1].email = EmailA
    /\ LastUpsert.accounts[1].addedAt = probe.input[1][1].addedAt
    /\ LastUpsert.accounts[1].updatedAt = now + 1
    /\ LastUpsert.accounts[3].email = EmailC

\* C40, as stated: every ModelQuota either parser returns has a
\* remainingPercent in 0..100, for a fraction in [0,1], below 0, above 1 or
\* absent.
C40_AsStated ==
    probe.op = "parse" =>
        \A fn \in {"parseQuotaResponse", "parseUserQuotaResponse"} :
            \A quota \in ParsedBy(fn) : \A k \in DOMAIN quota :
                quota[k].remainingPercent \in 0..100

\* the percentage of a fraction in [0,1] and of an absent one is in 0..100
InRangeStaysInRange ==
    (probe.op = "parse" /\ probe.input \notin OutOfRangeEntries) =>
        \A fn \in {"parseQuotaResponse", "parseUserQuotaResponse"} :
            \A quota \in ParsedBy(fn) : \A k \in DOMAIN quota :
                quota[k].remainingPercent \in 0..100

\* a parser returned 200 percent, and one returned -100 percent
AboveHundred ==
    /\ Parsed /\ probe.input \in OutOfRangeEntries
    /\ Models[1].remainingPercent = 200 /\ Buckets[1].remainingPercent = 200
BelowZero ==
    /\ Parsed /\ probe.input \in OutOfRangeEntries
    /\ Models[1].remainingPercent = -100 /\ Buckets[1].remainingPercent = -100
====
